---------------------------- MODULE Spec2Model ----------------------------
(***************************************************************************)
(* DialogueRecorder: the line classifier of DialogueListenerService and    *)
(* the record store of DatabaseService.                                    *)
(*                                                                         *)
(* A string is a sequence of characters; a character is a one-character    *)
(* TLA+ string for ASCII and "uXXXX" (its code point) for a CJK character, *)
(* so that includes, indexOf, substring, trim, toLowerCase and the regular *)
(* expressions of the source are computed on the characters themselves.    *)
(***************************************************************************)
EXTENDS Integers, Sequences, FiniteSets, TLC

None == "none"

\* JavaScript's null where a string is expected: a value that is no string
Null == <<"null">>

(***************************************************************************)
(* String primitives of JavaScript used by the source.                     *)
(***************************************************************************)
WhiteSpace == {" ", "\t"}
Digits == {"0", "1", "2", "3", "4", "5", "6", "7", "8", "9"}

LowerOf ==
    [c \in {"A", "B", "C", "D", "E", "F", "G", "H", "I", "J", "K", "L", "M",
            "N", "O", "P", "Q", "R", "S", "T", "U", "V", "W", "X", "Y", "Z"} |->
        CASE c = "A" -> "a" [] c = "B" -> "b" [] c = "C" -> "c" [] c = "D" -> "d"
          [] c = "E" -> "e" [] c = "F" -> "f" [] c = "G" -> "g" [] c = "H" -> "h"
          [] c = "I" -> "i" [] c = "J" -> "j" [] c = "K" -> "k" [] c = "L" -> "l"
          [] c = "M" -> "m" [] c = "N" -> "n" [] c = "O" -> "o" [] c = "P" -> "p"
          [] c = "Q" -> "q" [] c = "R" -> "r" [] c = "S" -> "s" [] c = "T" -> "t"
          [] c = "U" -> "u" [] c = "V" -> "v" [] c = "W" -> "w" [] c = "X" -> "x"
          [] c = "Y" -> "y" [] c = "Z" -> "z"]

\* String.prototype.toLowerCase
toLowerCase(s) ==
    <<>> \o [i \in 1..Len(s) |->
                IF s[i] \in DOMAIN LowerOf THEN LowerOf[s[i]] ELSE s[i]]

\* sub occurs in s at the 0-based index i
occursAt(s, sub, i) ==
    /\ i + Len(sub) <= Len(s)
    /\ \A j \in 1..Len(sub) : s[i + j] = sub[j]

\* String.prototype.includes
includes(s, sub) == \E i \in 0..(Len(s) - Len(sub)) : occursAt(s, sub, i)

\* String.prototype.indexOf: the first 0-based index of sub in s, -1 if none
indexOf(s, sub) ==
    IF includes(s, sub)
    THEN CHOOSE i \in 0..(Len(s) - Len(sub)) :
            /\ occursAt(s, sub, i)
            /\ \A k \in 0..(i - 1) : ~occursAt(s, sub, k)
    ELSE -1

\* a regular expression ^sub
startsWith(s, sub) == occursAt(s, sub, 0)

\* String.prototype.substring(from), 0-based
substring(s, from) == SubSeq(s, from + 1, Len(s))

\* String.prototype.trim
trim(s) ==
    LET keep == {i \in 1..Len(s) : s[i] \notin WhiteSpace}
    IN  IF keep = {} THEN <<>>
        ELSE SubSeq(s, CHOOSE i \in keep : \A k \in keep : i <= k,
                       CHOOSE i \in keep : \A k \in keep : i >= k)

(***************************************************************************)
(* The keyword tables of DialogueListenerService.                          *)
(***************************************************************************)
terminalKeywords == <<
    <<"u7EC8", "u7AEF">>,                       \* zhongduan (terminal)
    <<"t", "e", "r", "m", "i", "n", "a", "l">>,
    <<"u547D", "u4EE4">>,                       \* mingling (command)
    <<"c", "o", "m", "m", "a", "n", "d">>,
    <<"n", "p", "m">>,
    <<"g", "i", "t">>,
    <<"c", "d">>,
    <<"l", "s">>,
    <<"d", "i", "r">>,
    <<"u7F16", "u8BD1">>,                       \* bianyi (compile)
    <<"c", "o", "m", "p", "i", "l", "e">>,
    <<"u6784", "u5EFA">>,                       \* goujian (build)
    <<"b", "u", "i", "l", "d">>,
    <<"u8FD0", "u884C">>,                       \* yunxing (run)
    <<"r", "u", "n">>,
    <<"u6267", "u884C">>,                       \* zhixing (execute)
    <<"e", "x", "e", "c", "u", "t", "e">>,
    <<"u9519", "u8BEF">>,                       \* cuowu (error)
    <<"e", "r", "r", "o", "r">>,
    <<"u8B66", "u544A">>,                       \* jinggao (warning)
    <<"w", "a", "r", "n", "i", "n", "g">>,
    <<"u4FE1", "u606F">>,                       \* xinxi (info)
    <<"i", "n", "f", "o">>,
    <<"u8C03", "u8BD5">>,                       \* tiaoshi (debug)
    <<"d", "e", "b", "u", "g">>,
    <<"u65AD", "u70B9">>,                       \* duandian (breakpoint)
    <<"b", "r", "e", "a", "k", "p", "o", "i", "n", "t">>,
    <<"u5DE5", "u5177", "u8C03", "u7528">>,     \* gongju diaoyong (tool call)
    <<"t", "o", "o", "l", "_", "c", "a", "l", "l">>,
    <<"T", "o", "o", "l", ":">>,
    <<"u5DE5", "u5177", ":">>,                  \* gongju: (tool:)
    <<"u521B", "u5EFA">>,                       \* chuangjian (create)
    <<"c", "r", "e", "a", "t", "e">>,
    <<"u5173", "u95ED">>,                       \* guanbi (close)
    <<"c", "l", "o", "s", "e">>,
    <<"u5F00", "u59CB">>,                       \* kaishi (start)
    <<"s", "t", "a", "r", "t">>,
    <<"u7ED3", "u675F">>,                       \* jieshu (end)
    <<"e", "n", "d">> >>

dialogueIndicators == <<
    <<"u4F60", "u597D">>,                       \* nihao
    <<"u8BF7", "u95EE">>,                       \* qingwen
    <<"u8C22", "u8C22">>,                       \* xiexie
    <<"u5E2E", "u52A9">>,                       \* bangzhu
    <<"u95EE", "u9898">>,                       \* wenti
    <<"u56DE", "u7B54">>,                       \* huida
    <<"u89E3", "u91CA">>,                       \* jieshi
    <<"u8BF4", "u660E">>,                       \* shuoming
    <<"u5982", "u4F55">>,                       \* ruhe
    <<"u4EC0", "u4E48">>,                       \* shenme
    <<"u4E3A", "u4EC0", "u4E48">>,              \* weishenme
    <<"u600E", "u6837">>,                       \* zenyang
    <<"u53EF", "u4EE5">>,                       \* keyi
    <<"u9700", "u8981">>,                       \* xuyao
    <<"u60F3", "u8981">>,                       \* xiangyao
    <<"u5E0C", "u671B">>,                       \* xiwang
    <<"u6211", "u89C9", "u5F97">>,              \* wo juede
    <<"u6211", "u8BA4", "u4E3A">>,              \* wo renwei
    <<"u5EFA", "u8BAE">>,                       \* jianyi
    <<"u63A8", "u8350">>,                       \* tuijian
    <<"u793A", "u4F8B">>,                       \* shili
    <<"u4EE3", "u7801">>,                       \* daima (code)
    <<"u5B9E", "u73B0">>,                       \* shixian (implement)
    <<"u529F", "u80FD">>,                       \* gongneng (feature)
    <<"u7279", "u6027">>,                       \* texing
    <<"u9700", "u6C42">>,                       \* xuqiu
    <<"u8981", "u6C42">>,                       \* yaoqiu
    <<"u4EFB", "u52A1">>,                       \* renwu
    <<"u76EE", "u6807">>,                       \* mubiao
    <<"u76EE", "u7684">> >>                     \* mudi

\* the words of the pattern /^(OK|...)$/i
statusWords == <<
    <<"O", "K">>,
    <<"u6210", "u529F">>,                       \* chenggong
    <<"u5931", "u8D25">>,                       \* shibai
    <<"u9519", "u8BEF">>,                       \* cuowu
    <<"u5B8C", "u6210">>,                       \* wancheng
    <<"u5F00", "u59CB">>,                       \* kaishi
    <<"u7ED3", "u675F">> >>                     \* jieshu

\* the prefixes of the patterns /^.../ of isRealChatContent
statusPrefixes == <<
    <<"u6267", "u884C", "u547D", "u4EE4", ":">>,    \* zhixing mingling:
    <<"u5DE5", "u5177", "u8C03", "u7528", ":">>,    \* gongju diaoyong:
    <<"u7EC8", "u7AEF", "u5DF2">>,                  \* zhongduan yi
    <<"u8C03", "u8BD5", "u4F1A", "u8BDD">> >>       \* tiaoshi huihua

questionWords == <<
    <<"?">>,
    <<"uFF1F">>,                                \* full-width question mark
    <<"u8BF7", "u95EE">>,                       \* qingwen
    <<"u5982", "u4F55">>,                       \* ruhe
    <<"u4EC0", "u4E48">>,                       \* shenme
    <<"u4E3A", "u4EC0", "u4E48">> >>            \* weishenme

implementationWords == <<
    <<"u4EE3", "u7801">>,                       \* daima
    <<"u5B9E", "u73B0">>,                       \* shixian
    <<"u529F", "u80FD">>,                       \* gongneng
    <<"u5DE5", "u5177">> >>                     \* gongju

builderMarkers == << <<"[", "B", "u", "i", "l", "d", "e", "r", "]">>,
                     <<"B", "u", "i", "l", "d", "e", "r", ":">> >>
chatMarkers == << <<"[", "C", "h", "a", "t", "]">>,
                  <<"C", "h", "a", "t", ":">>,
                  <<"A", "s", "s", "i", "s", "t", "a", "n", "t", ":">> >>
userMarkers == << <<"[", "U", "s", "e", "r", "]">>,
                  <<"U", "s", "e", "r", ":">>,
                  <<"U", "S", "E", "R", ":">> >>

minLength == 10
maxLength == 5000
pureDialogueMinLength == 20
chatMinLength == 100

(***************************************************************************)
(* The classifier: analyzeOutputLine and its helpers.                      *)
(***************************************************************************)
Range(seq) == {seq[i] : i \in 1..Len(seq)}

\* mutant: the line is not lower-cased before the keywords are looked up
isTerminalOrSystemMessageCaseSensitive(line) ==
    \E k \in 1..Len(terminalKeywords) :
        includes(line, toLowerCase(terminalKeywords[k]))

isTerminalOrSystemMessage(line) ==
    LET lower == toLowerCase(line)
    IN  \E k \in 1..Len(terminalKeywords) :
            includes(lower, toLowerCase(terminalKeywords[k]))

\* /^\s*\d+\s*$/
isNumericPattern(content) ==
    LET t == trim(content)
    IN  /\ Len(t) > 0
        /\ \A i \in 1..Len(t) : t[i] \in Digits

\* /^[\s\-\*]+$/
isSymbolPattern(content) ==
    /\ Len(content) > 0
    /\ \A i \in 1..Len(content) : content[i] \in WhiteSpace \cup {"-", "*"}

\* /^(OK|...)$/i
isStatusWordPattern(content) ==
    \E k \in 1..Len(statusWords) :
        toLowerCase(content) = toLowerCase(statusWords[k])

isStatusPrefixPattern(content) ==
    \E k \in 1..Len(statusPrefixes) : startsWith(content, statusPrefixes[k])

\* mutant: the upper length limit is not enforced
isRealChatContentNoMax(content) ==
    IF Len(content) < minLength
    THEN FALSE
    ELSE ~(\/ isNumericPattern(content)
           \/ isSymbolPattern(content)
           \/ isStatusWordPattern(content)
           \/ isStatusPrefixPattern(content))

isRealChatContent(content) ==
    IF Len(content) < minLength \/ Len(content) > maxLength
    THEN FALSE
    ELSE ~(\/ isNumericPattern(content)
           \/ isSymbolPattern(content)
           \/ isStatusWordPattern(content)
           \/ isStatusPrefixPattern(content))

isPureDialogueContent(line) ==
    /\ \E k \in 1..Len(dialogueIndicators) : includes(line, dialogueIndicators[k])
    /\ Len(line) > pureDialogueMinLength

\* mutant: the length rule is tried before the question and code rules
determineSpeakerLengthFirst(line) ==
    IF Len(line) > chatMinLength
    THEN "CHAT"
    ELSE IF \E k \in 1..Len(questionWords) : includes(line, questionWords[k])
    THEN "USER"
    ELSE IF \E k \in 1..Len(implementationWords) :
                includes(line, implementationWords[k])
    THEN "BUILDER"
    ELSE None

determineSpeakerFromContext(line) ==
    IF \E k \in 1..Len(questionWords) : includes(line, questionWords[k])
    THEN "USER"
    ELSE IF \E k \in 1..Len(implementationWords) :
                includes(line, implementationWords[k])
    THEN "BUILDER"
    ELSE IF Len(line) > chatMinLength
    THEN "CHAT"
    ELSE None

\* the first marker of the list (in list order) that the line contains decides
extractContent(line, markers) ==
    LET found == {k \in 1..Len(markers) : indexOf(line, markers[k]) # -1}
    IN  IF found = {} THEN Null
        ELSE LET k == CHOOSE m \in found : \A n \in found : m <= n
             IN  trim(substring(line, indexOf(line, markers[k]) + Len(markers[k])))

\* /\[Builder\]|^Builder:/ and its siblings: the bracketed tag anywhere, the
\* 'Role:' forms at the start of the line
matchesMarker(line, markers) ==
    \/ includes(line, markers[1])
    \/ \E k \in 2..Len(markers) : startsWith(line, markers[k])

\* the arguments of one recordDialogue call
Candidate(speaker, content) == [speaker |-> speaker, content |-> content]

\* if (content && this.isRealChatContent(content)) this.recordDialogue(...)
markedCandidate(speaker, content) ==
    IF content # Null /\ content # <<>> /\ isRealChatContent(content)
    THEN <<Candidate(speaker, content)>>
    ELSE <<>>

\* mutant: the user markers are tried before the chat markers
analyzeOutputLineUserFirst(line) ==
    IF isTerminalOrSystemMessage(line) THEN <<>>
    ELSE IF matchesMarker(line, builderMarkers)
    THEN markedCandidate("BUILDER", extractContent(line, builderMarkers))
    ELSE IF matchesMarker(line, userMarkers)
    THEN markedCandidate("USER", extractContent(line, userMarkers))
    ELSE IF matchesMarker(line, chatMarkers)
    THEN markedCandidate("CHAT", extractContent(line, chatMarkers))
    ELSE IF isPureDialogueContent(line)
    THEN IF determineSpeakerFromContext(line) # None /\ isRealChatContent(line)
         THEN <<Candidate(determineSpeakerFromContext(line), line)>>
         ELSE <<>>
    ELSE <<>>

\* the recordDialogue calls analyzeOutputLine makes for the line: none or one
analyzeOutputLine(line) ==
    IF isTerminalOrSystemMessage(line) THEN <<>>
    ELSE IF matchesMarker(line, builderMarkers)
    THEN markedCandidate("BUILDER", extractContent(line, builderMarkers))
    ELSE IF matchesMarker(line, chatMarkers)
    THEN markedCandidate("CHAT", extractContent(line, chatMarkers))
    ELSE IF matchesMarker(line, userMarkers)
    THEN markedCandidate("USER", extractContent(line, userMarkers))
    ELSE IF isPureDialogueContent(line)
    THEN IF determineSpeakerFromContext(line) # None /\ isRealChatContent(line)
         THEN <<Candidate(determineSpeakerFromContext(line), line)>>
         ELSE <<>>
    ELSE <<>>

(***************************************************************************)
(* The lines the classifier is checked on: a head (nothing, a role marker, *)
(* a dialogue word, a noise word), a body (padding around the length       *)
(* thresholds, digits, symbols) and a tail (nothing, a question mark, a    *)
(* second marker, an implementation word, a noise word).                   *)
(***************************************************************************)
Pad(n) == <<>> \o [i \in 1..n |-> "u7684"]         \* de, n times

Heads ==
    {<<>>}
    \cup {builderMarkers[k] \o <<" ">> : k \in 1..Len(builderMarkers)}
    \cup {chatMarkers[k] \o <<" ">> : k \in 1..Len(chatMarkers)}
    \cup {userMarkers[k] \o <<" ">> : k \in 1..Len(userMarkers)}
    \cup { <<"u4F60", "u597D">>,                   \* nihao
           <<"u8BF7", "u95EE">>,                   \* qingwen
           <<"u4EE3", "u7801">>,                   \* daima
           <<"G", "i", "t", " ">> }

PadLengths ==
    {0, minLength - 1, minLength, pureDialogueMinLength - 2,
     pureDialogueMinLength - 1, chatMinLength - 2, chatMinLength - 1}

Bodies ==
    {Pad(n) : n \in PadLengths}
    \cup { <<"1", "2", "3", "4", "5", "6", "7", "8", "9", "0">>,
           <<"=", "=", "=", "=", "=", "=", "=", "=", "=", "=">>,
           <<"-", " ", "*", " ", "-", " ", "*", " ", "-", " ", "*">>,
           \* wo lai bang nin wancheng zhege xiangmu
           <<"u6211", "u6765", "u5E2E", "u60A8", "u5B8C", "u6210", "u8FD9",
             "u4E2A", "u9879", "u76EE">> }

Tails ==
    { <<>>,
      <<"?">>,
      <<"u5DE5", "u5177">>,                        \* gongju
      <<" ", "n", "p", "m">>,
      <<" ", "C", "h", "a", "t", ":", " ">> \o Pad(minLength),
      <<" ", "[", "U", "s", "e", "r", "]", " ">> \o Pad(minLength) }

LongLines ==
    { <<"u4F60", "u597D">> \o Pad(maxLength - 2),
      <<"u4F60", "u597D">> \o Pad(maxLength - 1),
      <<"u8BF7", "u95EE">> \o Pad(maxLength - 1),
      <<"[", "U", "s", "e", "r", "]", " ">> \o Pad(maxLength),
      <<"[", "U", "s", "e", "r", "]", " ">> \o Pad(maxLength + 1) }

\* processOutputContent hands over trimmed, non-empty lines only
Lines ==
    ({trim(h \o b \o t) : h \in Heads, b \in Bodies, t \in Tails} \cup LongLines)
        \ {<<>>}

(***************************************************************************)
(* The text of an output document and processOutputContent.                *)
(***************************************************************************)
RECURSIVE split(_, _)
\* String.prototype.split on a one-character separator
split(s, sep) ==
    IF \A i \in 1..Len(s) : s[i] # sep
    THEN <<s>>
    ELSE LET i == CHOOSE k \in 1..Len(s) :
                    s[k] = sep /\ \A m \in 1..(k - 1) : s[m] # sep
         IN  <<SubSeq(s, 1, i - 1)>> \o split(SubSeq(s, i + 1, Len(s)), sep)

RECURSIVE toDecimal(_)
\* the decimal digits of a natural number, as `${n}` prints it
toDecimal(n) ==
    LET digit == <<"0", "1", "2", "3", "4", "5", "6", "7", "8", "9">>
    IN  IF n < 10 THEN <<digit[n + 1]>>
        ELSE toDecimal(n \div 10) \o <<digit[(n % 10) + 1]>>

\* what a handler was handed: a document, a line, a terminal, a debug
\* session, a breakpoint
Item(kind, name, lineNo) == [kind |-> kind, name |-> name, lineNo |-> lineNo]

\* a recordDialogue call a handler makes, with what it is made for
Emission(speaker, content, event, input) ==
    [speaker |-> speaker, content |-> content, event |-> event, input |-> input]

\* one run of a handler on one item, and the recordDialogue calls it makes
Delivery(event, input, emissions) ==
    [event |-> event, input |-> input, emissions |-> emissions]

RECURSIVE analyzeLines(_)
analyzeLines(lines) ==
    IF lines = <<>> THEN <<>>
    ELSE LET l == trim(Head(lines))
             made == IF l = <<>> THEN <<>> ELSE analyzeOutputLine(l)
         IN  [k \in 1..Len(made) |->
                  Emission(made[k].speaker, made[k].content, "line",
                           Item("line", l, 0))]
             \o analyzeLines(Tail(lines))

\* processOutputContent on a document text: every non-empty line, trimmed,
\* goes through analyzeOutputLine
processOutputContent(text) ==
    Delivery("changeTextDocument", Item("document", text, 0),
             analyzeLines(split(text, "\n")))

(***************************************************************************)
(* The lifecycle handlers' templates.                                      *)
(***************************************************************************)
\* mutant: the terminal-created text goes through the line classifier
terminalCreatedClassified(terminal) ==
    Delivery("openTerminal", terminal,
        LET made == analyzeOutputLine(
                        <<"u7EC8", "u7AEF", "u5DF2", "u521B", "u5EFA", ":", " ">>
                            \o terminal.name)
        IN  [k \in 1..Len(made) |->
                Emission(made[k].speaker, made[k].content,
                         "openTerminal", terminal)])

\* zhongduan yi chuangjian: (terminal created)
terminalCreated(terminal) ==
    Delivery("openTerminal", terminal,
        <<Emission("BUILDER",
                   <<"u7EC8", "u7AEF", "u5DF2", "u521B", "u5EFA", ":", " ">>
                       \o terminal.name,
                   "openTerminal", terminal)>>)

\* zhongduan yi guanbi: (terminal closed)
terminalClosed(terminal) ==
    Delivery("closeTerminal", terminal,
        <<Emission("BUILDER",
                   <<"u7EC8", "u7AEF", "u5DF2", "u5173", "u95ED", ":", " ">>
                       \o terminal.name,
                   "closeTerminal", terminal)>>)

\* tiaoshi huihua kaishi: (debug session started)
debugSessionStarted(session) ==
    Delivery("startDebugSession", session,
        <<Emission("BUILDER",
                   <<"u8C03", "u8BD5", "u4F1A", "u8BDD", "u5F00", "u59CB", ":", " ">>
                       \o session.name,
                   "startDebugSession", session)>>)

\* tiaoshi huihua jieshu: (debug session ended)
debugSessionTerminated(session) ==
    Delivery("terminateDebugSession", session,
        <<Emission("BUILDER",
                   <<"u8C03", "u8BD5", "u4F1A", "u8BDD", "u7ED3", "u675F", ":", " ">>
                       \o session.name,
                   "terminateDebugSession", session)>>)

\* zhongduan jiaohu: (terminal interaction), only once the terminal has been
\* interacted with
terminalStateChanged(terminal, isInteractedWith) ==
    Delivery("changeTerminalState", terminal,
        IF isInteractedWith
        THEN <<Emission("USER",
                        <<"u7EC8", "u7AEF", "u4EA4", "u4E92", ":", " ">>
                            \o terminal.name,
                        "changeTerminalState", terminal)>>
        ELSE <<>>)

\* tiaoshi shuchu: (debug output), for an 'output' event with a non-empty output
debugSessionCustomEvent(event) ==
    Delivery("receiveDebugSessionCustomEvent", event,
        IF event.kind = "output" /\ event.name # <<>>
        THEN <<Emission("BUILDER",
                        <<"u8C03", "u8BD5", "u8F93", "u51FA", ":", " ">>
                            \o event.name,
                        "receiveDebugSessionCustomEvent", event)>>
        ELSE <<>>)

\* shezhi duandian: / shezhi hanshu duandian: (breakpoint set)
breakpointAdded(bp) ==
    Delivery("addBreakpoint", bp,
        <<Emission("USER",
                   IF bp.kind = "source"
                   THEN <<"u8BBE", "u7F6E", "u65AD", "u70B9", ":", " ">>
                            \o bp.name \o <<":">> \o toDecimal(bp.lineNo + 1)
                   ELSE <<"u8BBE", "u7F6E", "u51FD", "u6570", "u65AD", "u70B9",
                          ":", " ">> \o bp.name,
                   "addBreakpoint", bp)>>)

\* yichu duandian: / yichu hanshu duandian: (breakpoint removed)
breakpointRemoved(bp) ==
    Delivery("removeBreakpoint", bp,
        <<Emission("USER",
                   IF bp.kind = "source"
                   THEN <<"u79FB", "u9664", "u65AD", "u70B9", ":", " ">>
                            \o bp.name \o <<":">> \o toDecimal(bp.lineNo + 1)
                   ELSE <<"u79FB", "u9664", "u51FD", "u6570", "u65AD", "u70B9",
                          ":", " ">> \o bp.name,
                   "removeBreakpoint", bp)>>)

\* one onDidChangeBreakpoints handler: the added breakpoints, then the removed
breakpointsChanged(event) ==
    [k \in 1..Len(event.added) |-> breakpointAdded(event.added[k])]
    \o [k \in 1..Len(event.removed) |-> breakpointRemoved(event.removed[k])]

(***************************************************************************)
(* The inputs of the listener specification.                               *)
(***************************************************************************)
UserLine == <<"[", "U", "s", "e", "r", "]", " ">> \o Pad(minLength)

\* qingwen ...? : an unmarked question of 21 characters
QuestionLine == <<"u8BF7", "u95EE">> \o Pad(pureDialogueMinLength - 2) \o <<"?">>

NoiseLine == <<"n", "p", "m", " ", "i", "n", "s", "t", "a", "l", "l">>

Docs ==
    { UserLine,
      NoiseLine \o <<"\n", " ", " ", "\n", " ">> \o QuestionLine \o <<" ">> }

Terminals == { Item("terminal", <<"s", "h">>, 0) }

DebugSessions == { Item("session", <<"a", "p", "p">>, 0) }

SourceBreakpoint == Item("source", <<"a", ".", "t", "s">>, 9)
FunctionBreakpoint == Item("function", <<"m", "a", "i", "n">>, 0)

CustomEvents ==
    { Item("output", <<"o", "k">>, 0), Item("output", <<>>, 0),
      Item("stopped", <<>>, 0) }
BreakpointEvents ==
    { [added |-> <<SourceBreakpoint>>, removed |-> <<>>],
      [added |-> <<FunctionBreakpoint>>, removed |-> <<SourceBreakpoint>>],
      [added |-> <<>>, removed |-> <<FunctionBreakpoint>>] }

\* the records handed to saveRecord directly: an id, a session, and one of two
\* versions of the other fields (the second save of an id is the "update")
TestIds == {<<"test", 1, 0>>, <<"test", 2, 0>>}
TestSessions == {<<"session", 0, 1>>, <<"session", 0, 2>>}
TestVersions ==
    { [speaker |-> "USER", timestamp |-> 0,
       content |-> <<"u539F", "u59CB", "u5185", "u5BB9">>],
      [speaker |-> "CHAT", timestamp |-> 1,
       content |-> <<"u66F4", "u65B0", "u540E", "u7684", "u5185", "u5BB9">>] }
TestRecords ==
    { [id |-> id, sessionId |-> session, timestamp |-> v.timestamp,
       speaker |-> v.speaker, content |-> v.content, recordType |-> "DIALOGUE"] :
          id \in TestIds, session \in TestSessions, v \in TestVersions }

MaxCalls == 2
MaxRegistrations == 2
MaxTime == 1
MaxDelivered == 2

VARIABLES
    line,       \* classifier specification: the line handed to analyzeOutputLine
    result,     \* classifier specification: whether it ran, and the calls it made
    now,        \* Date.now()
    rand,       \* the number of Math.random() values drawn
    db,         \* DatabaseService.db: "handle" or "null"
    conn,       \* the sqlite3 connection: "opening", "creating" (open, CREATE TABLE
                \* in flight), "open" or "failed"
    initializationPromise,  \* "pending", "resolved" or "rejected"
    hasTable,   \* whether dialogue_records has been created
    rows,       \* the rows of dialogue_records, in insertion order
    calls,      \* the recordDialogue and saveRecord calls, each with its position
    currentSessionId,       \* DialogueListenerService.currentSessionId
    isListening,            \* DialogueListenerService.isListening
    registrations,          \* how many times the event handlers are registered
    terminals,              \* vscode.window.terminals
    closeListeners,         \* per terminal, its undisposed onDidCloseTerminal handlers
    delivered,  \* the items handed to the handlers so far
    criteria,   \* search specification: the SearchCriteria handed to search
    found,      \* search specification: how search ended, and what it returned
    query       \* the session query in flight or finished, with what it returned

classifierVars == <<line, result>>
searchVars == <<criteria, found, query>>
clockVars == <<now, rand>>
storeVars == <<db, conn, initializationPromise, hasTable, rows>>
listenerVars == <<currentSessionId, isListening, registrations, terminals,
                  closeListeners, delivered>>
vars == <<classifierVars, searchVars, clockVars, storeVars, calls, listenerVars>>

(***************************************************************************)
(* Identifiers.  Math.random() is taken never to return the same value     *)
(* twice: the n-th draw is n.                                              *)
(***************************************************************************)
\* mutant: the random suffix is left out of the id
generateRecordIdNoRandom(time, draw) == <<"record", time, 0>>

\* `record_${Date.now()}_${Math.random().toString(36).substr(2, 9)}`
generateRecordId(time, draw) == <<"record", time, draw>>

\* `session_${Date.now()}_${Math.random().toString(36).substr(2, 9)}`
generateSessionId(time, draw) == <<"session", time, draw>>

(***************************************************************************)
(* DatabaseService: initializeDatabase, saveRecord, close.                 *)
(***************************************************************************)
\* Date.prototype.toISOString, the text stored in the timestamp column
toISOString(time) == <<"ISO", time>>

\* the row INSERT writes for a record
Row(record) ==
    [id |-> record.id,
     session_id |-> record.sessionId,
     timestamp |-> toISOString(record.timestamp),
     speaker |-> record.speaker,
     content |-> record.content,
     record_type |-> record.recordType]

\* mutant: recordDialogue has no try/catch around saveRecord
recordDialogueRethrows(error) == IF error = None THEN "resolved" ELSE "rejected"

\* how recordDialogue ends when saveRecord ended with error (None: resolved):
\* the catch block logs and the promise resolves
recordDialogueSettles(error) == "resolved"

\* how a call ends when its INSERT or its wait ended with error
Settled(call, error) ==
    [call EXCEPT !.error = error,
                 !.state = IF call.fn = "recordDialogue"
                           THEN recordDialogueSettles(error)
                           ELSE IF error = None THEN "resolved" ELSE "rejected"]

\* saveRecord up to its first suspension: with a handle the INSERT is issued,
\* without one the call waits for initializationPromise
SaveRecordCall(fn, record, origin) ==
    [fn |-> fn, record |-> record, origin |-> origin,
     state |-> IF db = "handle" THEN "inserting" ELSE "awaitInit",
     error |-> None]

RECURSIVE Tagged(_, _)
\* the emissions of a batch of deliveries, in order, each with the index its
\* delivery gets in the log
Tagged(batch, base) ==
    IF batch = <<>> THEN <<>>
    ELSE [k \in 1..Len(Head(batch).emissions) |->
             [emission |-> Head(batch).emissions[k], delivery |-> base + 1]]
         \o Tagged(Tail(batch), base + 1)

\* recordDialogue(speaker, content) for each emission, in order
RecordDialogueCalls(tagged) ==
    [k \in 1..Len(tagged) |->
        SaveRecordCall("recordDialogue",
                       [id |-> generateRecordId(now, rand + k),
                        sessionId |-> currentSessionId,
                        timestamp |-> now,
                        speaker |-> tagged[k].emission.speaker,
                        content |-> tagged[k].emission.content,
                        recordType |-> "DIALOGUE"],
                       [delivery |-> tagged[k].delivery,
                        event |-> tagged[k].emission.event,
                        input |-> tagged[k].emission.input])]

\* the handler runs of batch take place: their recordDialogue calls are made
RecordAll(batch) ==
    LET tagged == Tagged(batch, Len(delivered))
    IN  /\ Len(calls) + Len(tagged) <= MaxCalls
        /\ Len(delivered) + Len(batch) <= MaxDelivered
        /\ calls' = calls \o RecordDialogueCalls(tagged)
        /\ rand' = rand + Len(tagged)
        /\ delivered' = delivered
               \o [k \in 1..Len(batch) |->
                      [event |-> batch[k].event, input |-> batch[k].input]]
        /\ UNCHANGED now

\* the sqlite3.Database callback without error: CREATE TABLE is issued through
\* this.db; with this.db already null (close() came first) the callback
\* throws instead, and initializationPromise is never settled
OpenSucceeds ==
    /\ conn = "opening"
    /\ conn' = IF db = "handle" THEN "creating" ELSE "open"
    /\ UNCHANGED <<classifierVars, searchVars, clockVars, db, initializationPromise, hasTable,
                   rows, calls, listenerVars>>

OpenFails ==
    /\ conn = "opening"
    /\ conn' = "failed"
    /\ initializationPromise' = "rejected"
    /\ UNCHANGED <<classifierVars, searchVars, clockVars, db, hasTable, rows, calls,
                   listenerVars>>

\* the CREATE TABLE callback: the statement was issued before any close(), so
\* it runs whether or not this.db has been set to null since
CreateTableDone ==
    /\ conn = "creating"
    /\ conn' = "open"
    /\ hasTable' = TRUE
    /\ initializationPromise' = "resolved"
    /\ UNCHANGED <<classifierVars, searchVars, clockVars, db, rows, calls, listenerVars>>

\* close(): the statements already issued still run on the connection
Close ==
    /\ db = "handle"
    /\ db' = "null"
    /\ UNCHANGED <<classifierVars, searchVars, clockVars, conn, initializationPromise,
                   hasTable, rows, calls, listenerVars>>

\* mutant: the INSERT of a stored id is not rejected
InsertErrorNoPrimaryKey(record) ==
    IF conn = "failed" THEN "SQLITE_MISUSE"
    ELSE IF ~hasTable THEN "no such table"
    ELSE None

\* the error of an INSERT of record that runs now, None if it inserts
InsertError(record) ==
    IF conn = "failed" THEN "SQLITE_MISUSE"
    ELSE IF ~hasTable THEN "no such table"
    ELSE IF \E i \in 1..Len(rows) : rows[i].id = record.id
    THEN "UNIQUE constraint failed"
    ELSE None

\* the INSERT of call i runs (statements wait while the connection opens)
CompleteInsert(i) ==
    /\ calls[i].state = "inserting"
    /\ conn # "opening"
    /\ LET error == InsertError(calls[i].record)
       IN  /\ rows' = IF error = None THEN Append(rows, Row(calls[i].record))
                      ELSE rows
           /\ calls' = [calls EXCEPT ![i] = Settled(calls[i], error)]
    /\ UNCHANGED <<classifierVars, searchVars, clockVars, db, conn, initializationPromise,
                   hasTable, listenerVars>>

\* saveRecord resumes after `await this.initializationPromise`
ResumeSaveRecord(i) ==
    /\ calls[i].state = "awaitInit"
    /\ initializationPromise # "pending"
    /\ calls' = [calls EXCEPT ![i] =
                    IF initializationPromise = "rejected"
                    THEN Settled(calls[i], "initialization failed")
                    ELSE IF db = "null"
                    THEN Settled(calls[i], "Database not initialized")
                    ELSE [calls[i] EXCEPT !.state = "inserting"]]
    /\ UNCHANGED <<classifierVars, searchVars, clockVars, storeVars, listenerVars>>

\* saveRecord(record) called directly, as the tests and the panel do
SaveRecord(record) ==
    /\ Len(calls) < MaxCalls
    /\ calls' = Append(calls,
                       SaveRecordCall("saveRecord", record,
                                      [delivery |-> 0, event |-> "saveRecord",
                                       input |-> Item("record", <<>>, 0)]))
    /\ UNCHANGED <<classifierVars, searchVars, clockVars, storeVars, listenerVars>>

\* time passes; the clock is read by recordDialogue only, so it is followed
\* while a call can still be made
Tick ==
    /\ now < MaxTime
    /\ Len(calls) < MaxCalls
    /\ now' = now + 1
    /\ UNCHANGED <<classifierVars, searchVars, rand, storeVars, calls, listenerVars>>

(***************************************************************************)
(* DialogueListenerService: startListening, stopListening and the handlers *)
(* it registers.  The handlers are never unregistered and do not read      *)
(* isListening; an event runs every registered copy of its handler.        *)
(***************************************************************************)
RECURSIVE Repeat(_, _)
Repeat(seq, n) == IF n = 0 THEN <<>> ELSE seq \o Repeat(seq, n - 1)

SetToSeq(S) ==
    CHOOSE seq \in [1..Cardinality(S) -> S] : \A x \in S : \E k \in DOMAIN seq : seq[k] = x

\* startListening: the three setup functions; setupOutputPanelListener
\* processes the active output document (active = <<>>: none is active),
\* setupTerminalListener handles every terminal that is already open
StartListening(active) ==
    /\ ~isListening
    /\ registrations < MaxRegistrations
    /\ Len(calls) < MaxCalls \/ (active = <<>> /\ terminals = {})
    /\ isListening' = TRUE
    /\ registrations' = registrations + 1
    /\ LET existing == SetToSeq(terminals)
       IN  RecordAll((IF active = <<>> THEN <<>>
                      ELSE <<processOutputContent(active)>>)
                     \o [k \in 1..Len(existing) |-> terminalCreated(existing[k])])
    /\ closeListeners' = [t \in Terminals |->
                             IF t \in terminals THEN closeListeners[t] + 1
                             ELSE closeListeners[t]]
    /\ UNCHANGED <<classifierVars, searchVars, storeVars, currentSessionId, terminals>>

StopListening ==
    /\ isListening
    /\ isListening' = FALSE
    /\ UNCHANGED <<classifierVars, searchVars, clockVars, storeVars, calls, currentSessionId,
                   registrations, terminals, closeListeners, delivered>>

\* onDidChangeTextDocument of an output document with the text doc
OnDidChangeTextDocument(doc) ==
    /\ registrations > 0
    /\ Len(calls) < MaxCalls
    /\ RecordAll(Repeat(<<processOutputContent(doc)>>, registrations))
    /\ UNCHANGED <<classifierVars, searchVars, storeVars, currentSessionId, isListening,
                   registrations, terminals, closeListeners>>

\* onDidChangeActiveTextEditor to an output document with the text doc
OnDidChangeActiveTextEditor(doc) ==
    /\ registrations > 0
    /\ Len(calls) < MaxCalls
    /\ RecordAll(Repeat(<<[processOutputContent(doc)
                             EXCEPT !.event = "changeActiveTextEditor"]>>,
                        registrations))
    /\ UNCHANGED <<classifierVars, searchVars, storeVars, currentSessionId, isListening,
                   registrations, terminals, closeListeners>>

\* onDidOpenTerminal: setupTerminalDataListener records the terminal and
\* registers a close handler for it
OnDidOpenTerminal(terminal) ==
    /\ terminal \notin terminals
    /\ terminals' = terminals \cup {terminal}
    /\ RecordAll(Repeat(<<terminalCreated(terminal)>>, registrations))
    /\ closeListeners' = [closeListeners EXCEPT ![terminal] = @ + registrations]
    /\ UNCHANGED <<classifierVars, searchVars, storeVars, currentSessionId, isListening,
                   registrations>>

\* onDidCloseTerminal: each close handler of the terminal records and is disposed
OnDidCloseTerminal(terminal) ==
    /\ terminal \in terminals
    /\ terminals' = terminals \ {terminal}
    /\ RecordAll(Repeat(<<terminalClosed(terminal)>>, closeListeners[terminal]))
    /\ closeListeners' = [closeListeners EXCEPT ![terminal] = 0]
    /\ UNCHANGED <<classifierVars, searchVars, storeVars, currentSessionId, isListening,
                   registrations>>

OnDidChangeTerminalState(terminal, isInteractedWith) ==
    /\ registrations > 0
    /\ terminal \in terminals
    /\ RecordAll(Repeat(<<terminalStateChanged(terminal, isInteractedWith)>>,
                        registrations))
    /\ UNCHANGED <<classifierVars, searchVars, storeVars, currentSessionId, isListening,
                   registrations, terminals, closeListeners>>

OnDidReceiveDebugSessionCustomEvent(event) ==
    /\ registrations > 0
    /\ RecordAll(Repeat(<<debugSessionCustomEvent(event)>>, registrations))
    /\ UNCHANGED <<classifierVars, searchVars, storeVars, currentSessionId, isListening,
                   registrations, terminals, closeListeners>>

OnDidStartDebugSession(session) ==
    /\ registrations > 0
    /\ RecordAll(Repeat(<<debugSessionStarted(session)>>, registrations))
    /\ UNCHANGED <<classifierVars, searchVars, storeVars, currentSessionId, isListening,
                   registrations, terminals, closeListeners>>

OnDidTerminateDebugSession(session) ==
    /\ registrations > 0
    /\ RecordAll(Repeat(<<debugSessionTerminated(session)>>, registrations))
    /\ UNCHANGED <<classifierVars, searchVars, storeVars, currentSessionId, isListening,
                   registrations, terminals, closeListeners>>

OnDidChangeBreakpoints(event) ==
    /\ registrations > 0
    /\ RecordAll(Repeat(breakpointsChanged(event), registrations))
    /\ UNCHANGED <<classifierVars, searchVars, storeVars, currentSessionId, isListening,
                   registrations, terminals, closeListeners>>

(***************************************************************************)
(* DatabaseService.searchRecords and SearchService.  A relevance is kept   *)
(* as the exact fraction num/den of the value the source computes.         *)
(***************************************************************************)
Rat(n, d) == [num |-> n, den |-> d]
RatLess(a, b) == a.num * b.den < b.num * a.den
RatEq(a, b) == a.num * b.den = b.num * a.den

\* new Date(row.timestamp) of a stored ISO text
parseISO(text) == text[2]

\* the order of two ISO texts as SQLite compares them (four-digit years)
isoLeq(a, b) == a[2] <= b[2]

\* how LIKE compares two characters: ASCII letters without case
likeFold(c) == IF c \in DOMAIN LowerOf THEN LowerOf[c] ELSE c

RECURSIVE like(_, _)
\* SQLite's text LIKE pattern: % is any run of characters, _ any one character
like(text, pattern) ==
    IF pattern = <<>> THEN text = <<>>
    ELSE IF Head(pattern) = "%"
    THEN like(text, Tail(pattern)) \/ (text # <<>> /\ like(Tail(text), pattern))
    ELSE IF text = <<>> THEN FALSE
    ELSE IF Head(pattern) = "_" THEN like(Tail(text), Tail(pattern))
    ELSE /\ likeFold(Head(text)) = likeFold(Head(pattern))
         /\ like(Tail(text), Tail(pattern))

\* criteria.keyword || ''
orEmpty(keyword) == IF keyword = Null THEN <<>> ELSE keyword

\* a string that is neither undefined nor empty
truthy(s) == s # Null /\ s # <<>>

\* String.prototype.endsWith
endsWith(s, sub) == Len(sub) <= Len(s) /\ occursAt(s, sub, Len(s) - Len(sub))

\* String.prototype.indexOf(sub, from)
indexOfFrom(s, sub, from) ==
    LET at == {i \in from..(Len(s) - Len(sub)) : occursAt(s, sub, i)}
    IN  IF at = {} THEN -1 ELSE CHOOSE i \in at : \A k \in at : i <= k

\* String.prototype.substring(start, end), 0-based, end excluded
substringRange(s, start, end) == SubSeq(s, start + 1, end)

\* the rows WHERE content LIKE ? [AND timestamp >= ?] [AND timestamp <= ?]
\* keeps; an optional Date is <<>> or <<time>>
selectedRows(keyword, startTime, endTime) ==
    {k \in 1..Len(rows) :
        /\ like(rows[k].content, <<"%">> \o keyword \o <<"%">>)
        /\ startTime # <<>> => isoLeq(toISOString(startTime[1]), rows[k].timestamp)
        /\ endTime # <<>> => isoLeq(rows[k].timestamp, toISOString(endTime[1]))}

\* ORDER BY timestamp DESC: the orders of the chosen rows with the timestamps
\* non-increasing (SQL leaves the order of equal timestamps open)
orderByTimestampDesc(chosen) ==
    {o \in [1..Cardinality(chosen) -> chosen] :
        /\ \A i, j \in DOMAIN o : i # j => o[i] # o[j]
        /\ \A i, j \in DOMAIN o :
              i < j => isoLeq(rows[o[j]].timestamp, rows[o[i]].timestamp)}

\* rows.map(row => ({...})): the six columns, nothing else
rowToRecord(row) ==
    [id |-> row.id,
     sessionId |-> row.session_id,
     timestamp |-> parseISO(row.timestamp),
     speaker |-> row.speaker,
     content |-> row.content,
     recordType |-> row.record_type]

\* record.filePath, undefined on a record that has no such field
filePath(record) ==
    IF "filePath" \in DOMAIN record THEN record.filePath ELSE Null

\* the filter callback of search
passesFilter(c, record) ==
    /\ ~(c.speaker # None /\ record.speaker # c.speaker)
    /\ ~(c.recordType # None /\ record.recordType # c.recordType)
    /\ ~(/\ truthy(c.fileExtension)
         /\ truthy(filePath(record))
         /\ ~endsWith(filePath(record), c.fileExtension))

Quantifiers == {"?", "*", "+"}
LineTerminators == {"\n", "\r"}

\* new RegExp(pattern, 'g') throws SyntaxError (nothing to repeat).  The
\* patterns covered are made of a leading quantifier, '.', and characters that
\* stand for themselves.
regExpThrows(pattern) == pattern # <<>> /\ pattern[1] \in Quantifiers

\* the pattern matches s at the 0-based index i
regExpMatchesAt(s, pattern, i) ==
    /\ i + Len(pattern) <= Len(s)
    /\ \A j \in 1..Len(pattern) :
          IF pattern[j] = "." THEN s[i + j] \notin LineTerminators
          ELSE s[i + j] = pattern[j]

RECURSIVE regExpMatchCountFrom(_, _, _)
regExpMatchCountFrom(s, pattern, i) ==
    IF i + Len(pattern) > Len(s) THEN 0
    ELSE IF regExpMatchesAt(s, pattern, i)
    THEN 1 + regExpMatchCountFrom(s, pattern, i + Len(pattern))
    ELSE regExpMatchCountFrom(s, pattern, i + 1)

\* (s.match(new RegExp(pattern, 'g')) || []).length
regExpMatchCount(s, pattern) == regExpMatchCountFrom(s, pattern, 0)

\* calculateRelevance: min(1, 0.3 + keywordCount * 0.2 + positionScore * 0.5)
\* with positionScore = max(0, 1 - position / content.length), as the fraction
\* (3 L + 2 keywordCount L + 5 (L - position)) / (10 L) for L = content.length
calculateRelevance(record, keyword) ==
    IF keyword = <<>> THEN Rat(1, 2)
    ELSE LET content == toLowerCase(record.content)
             keywordLower == toLowerCase(keyword)
         IN  IF includes(content, keywordLower)
             THEN LET keywordCount == regExpMatchCount(content, keywordLower)
                      position == indexOf(content, keywordLower)
                      scaled == 3 * Len(content)
                                + 2 * keywordCount * Len(content)
                                + 5 * (Len(content) - position)
                  IN  IF scaled > 10 * Len(content) THEN Rat(1, 1)
                      ELSE Rat(scaled, 10 * Len(content))
             ELSE Rat(0, 1)

\* calculateRelevance throws: the RegExp is built once the keyword is found
calculateRelevanceThrows(record, keyword) ==
    /\ keyword # <<>>
    /\ includes(toLowerCase(record.content), toLowerCase(keyword))
    /\ regExpThrows(toLowerCase(keyword))

highlightContext == 20

\* mutant: the excerpt of the first occurrence only
highlightsFirstOnly(content, keyword, index) ==
    IF index = -1 THEN <<>>
    ELSE LET start == IF index - highlightContext > 0
                      THEN index - highlightContext ELSE 0
             end == IF index + Len(keyword) + highlightContext < Len(content)
                    THEN index + Len(keyword) + highlightContext
                    ELSE Len(content)
         IN  <<substringRange(content, start, end)>>

RECURSIVE highlightsFrom(_, _, _)
\* the while loop of extractHighlights, from the occurrence at index
highlightsFrom(content, keyword, index) ==
    IF index = -1 THEN <<>>
    ELSE LET start == IF index - highlightContext > 0
                      THEN index - highlightContext ELSE 0
             end == IF index + Len(keyword) + highlightContext < Len(content)
                    THEN index + Len(keyword) + highlightContext
                    ELSE Len(content)
         IN  <<substringRange(content, start, end)>>
             \o highlightsFrom(content, keyword,
                               indexOfFrom(toLowerCase(content),
                                           toLowerCase(keyword), index + 1))

extractHighlights(content, keyword) ==
    IF keyword = <<>> THEN <<>>
    ELSE highlightsFrom(content, keyword,
                        indexOf(toLowerCase(content), toLowerCase(keyword)))
\* a SearchResult
SearchResult(record, keyword) ==
    [record |-> record,
     relevance |-> calculateRelevance(record, keyword),
     highlights |-> extractHighlights(record.content, keyword)]

\* mutant: the sort puts an entry before the entries of equal relevance
insertBeforeEqual(sorted, entry) ==
    LET n == Cardinality({k \in 1..Len(sorted) :
                            RatLess(entry.relevance, sorted[k].relevance)})
    IN  SubSeq(sorted, 1, n) \o <<entry>> \o SubSeq(sorted, n + 1, Len(sorted))

\* one step of the stable sort by (a, b) => b.relevance - a.relevance: entry
\* goes after the entries whose relevance is not below its own
insertByRelevance(sorted, entry) ==
    LET n == Cardinality({k \in 1..Len(sorted) :
                            ~RatLess(sorted[k].relevance, entry.relevance)})
    IN  SubSeq(sorted, 1, n) \o <<entry>> \o SubSeq(sorted, n + 1, Len(sorted))

RECURSIVE sortByRelevance(_)
\* searchResults.sort((a, b) => b.relevance - a.relevance); Array.prototype.sort
\* is stable
sortByRelevance(results) ==
    IF results = <<>> THEN <<>>
    ELSE insertByRelevance(sortByRelevance(SubSeq(results, 1, Len(results) - 1)),
                           results[Len(results)])

\* mutant: search returns the entries in the order of the store
searchUnsorted(c, records) ==
    LET keyword == orEmpty(c.keyword)
        Keep(record) == passesFilter(c, record)
        filteredRecords == SelectSeq(records, Keep)
    IN  IF \E k \in 1..Len(filteredRecords) :
              calculateRelevanceThrows(filteredRecords[k], keyword)
        THEN [status |-> "rejected", error |-> "SyntaxError",
              records |-> records, results |-> <<>>]
        ELSE [status |-> "resolved", error |-> None, records |-> records,
              results |-> [k \in 1..Len(filteredRecords) |->
                              SearchResult(filteredRecords[k], keyword)]]

\* SearchService.search once searchRecords has returned records: filter, map,
\* sort; an exception of the map is logged and thrown again
search(c, records) ==
    LET keyword == orEmpty(c.keyword)
        Keep(record) == passesFilter(c, record)
        filteredRecords == SelectSeq(records, Keep)
    IN  IF \E k \in 1..Len(filteredRecords) :
              calculateRelevanceThrows(filteredRecords[k], keyword)
        THEN [status |-> "rejected", error |-> "SyntaxError",
              records |-> records, results |-> <<>>]
        ELSE [status |-> "resolved", error |-> None, records |-> records,
              results |-> sortByRelevance(
                              [k \in 1..Len(filteredRecords) |->
                                  SearchResult(filteredRecords[k], keyword)])]

(***************************************************************************)
(* The inputs of the search specification: what the store holds and the    *)
(* criteria handed to search.                                              *)
(***************************************************************************)
MaxRows == 3

StoredRecord(n, session, time, speaker, content, recordType) ==
    [id |-> <<"test", n, 0>>, sessionId |-> <<"session", 0, session>>,
     timestamp |-> time, speaker |-> speaker, content |-> content,
     recordType |-> recordType]

\* a text of n digits in which a position is told by its neighbourhood
Filler(n) ==
    <<>> \o [i \in 1..n |->
                <<"0", "1", "2", "3", "4", "5", "6", "7", "8", "9">>[((i - 1) % 10) + 1]]

\* records that were saved: equal-length texts with one and with two
\* occurrences of "ab", of ".", and a text longer than two excerpts with
\* upper case and a question mark
StoredRecords ==
    { StoredRecord(1, 1, 0, "USER", <<"a", "b", "a", "b">>, "DIALOGUE"),
      StoredRecord(2, 1, 1, "CHAT", <<"x", "x", "a", "b">>, "DIALOGUE"),
      StoredRecord(3, 2, 1, "USER", <<".", "a", ".", "b">>, "DIALOGUE"),
      StoredRecord(4, 2, 0, "CHAT", <<"a", ".", "b", "x">>, "DIALOGUE"),
      StoredRecord(5, 1, 2, "BUILDER",
                   Filler(highlightContext + 1) \o <<"A", "B">>
                       \o Filler(highlightContext + 4) \o <<"?", "a", "b">>
                       \o Filler(3),
                   "DIALOGUE"),
      StoredRecord(6, 2, 2, "USER", <<"a", "b", "x", "y">>,
                   "FILE_MODIFICATION") }

\* the tables the store can hold: up to MaxRows of the records, in any order
\* of insertion
StoredRows ==
    UNION { { [k \in 1..n |-> Row(o[k])] :
                o \in {f \in [1..n -> StoredRecords] :
                          \A i, j \in 1..n : i # j => f[i] # f[j]} } :
            n \in 0..MaxRows }

Keywords ==
    { <<>>, <<"a", "b">>, <<"A", "B">>, <<".">>, <<"_">>, <<"?">> }

Criterias ==
    { [keyword |-> keyword, startTime |-> window[1], endTime |-> window[2],
       speaker |-> speaker, recordType |-> recordType,
       fileExtension |-> fileExtension] :
          keyword \in Keywords \cup {Null},
          window \in {<<<<>>, <<>>>>, <<<<1>>, <<>>>>, <<<<>>, <<1>>>>},
          speaker \in {None, "USER", "CHAT"},
          recordType \in {None, "FILE_MODIFICATION"},
          fileExtension \in {Null, <<".", "t", "s">>} }

\* the variables of the search specification outside it
NoCriteria ==
    [keyword |-> Null, startTime |-> <<>>, endTime |-> <<>>, speaker |-> None,
     recordType |-> None, fileExtension |-> Null]
NotSearched ==
    [status |-> "none", error |-> None, records |-> <<>>, results |-> <<>>]

(***************************************************************************)
(* The session queries of DatabaseService: getRecordsBySession,            *)
(* getAllSessions, getSessionGroups, getSessionDetail.  A statement reads  *)
(* the table when it runs, after the call that issued it has returned.     *)
(***************************************************************************)
MaxDraws == 3

\* no query has been called
NoQuery ==
    [fn |-> "none", arg |-> <<>>, state |-> "none", info |-> <<>>,
     result |-> <<>>, error |-> None]

\* the elements of a set of numbers in increasing order
ascending(S) ==
    CHOOSE o \in [1..Cardinality(S) -> S] : \A i, j \in DOMAIN o : i < j => o[i] < o[j]

\* WHERE session_id = ?
rowsOfSession(sessionId) == {k \in 1..Len(rows) : rows[k].session_id = sessionId}

\* mutant: the speakers of the session are counted
countOfSpeakers(sessionId) ==
    Cardinality({rows[k].speaker : k \in rowsOfSession(sessionId)})

\* COUNT(*) of the group of a session
countOfSession(sessionId) == Cardinality(rowsOfSession(sessionId))

\* MAX(timestamp) of the rows of a session, compared as text
maxTimestamp(sessionId) ==
    CHOOSE t \in {rows[k].timestamp : k \in rowsOfSession(sessionId)} :
        \A k \in rowsOfSession(sessionId) : isoLeq(rows[k].timestamp, t)

\* MIN(timestamp) of the rows of a session
minTimestamp(sessionId) ==
    CHOOSE t \in {rows[k].timestamp : k \in rowsOfSession(sessionId)} :
        \A k \in rowsOfSession(sessionId) : isoLeq(t, rows[k].timestamp)

\* GROUP_CONCAT(DISTINCT speaker) and its split(','): each speaker of the
\* session once, in the order of first appearance
speakersOfSession(sessionId) ==
    LET first == {k \in rowsOfSession(sessionId) :
                     \A j \in rowsOfSession(sessionId) :
                         rows[j].speaker = rows[k].speaker => k <= j}
    IN  [i \in 1..Cardinality(first) |-> rows[ascending(first)[i]].speaker]

\* mutant: the sessions are ordered with the latest timestamps ascending
orderBySessionMaxAsc ==
    LET sessions == {rows[k].session_id : k \in 1..Len(rows)}
    IN  {o \in [1..Cardinality(sessions) -> sessions] :
            /\ \A i, j \in DOMAIN o : i # j => o[i] # o[j]
            /\ \A i, j \in DOMAIN o :
                  i < j => isoLeq(maxTimestamp(o[i]), maxTimestamp(o[j]))}

\* SELECT DISTINCT session_id / GROUP BY session_id ... ORDER BY the MAX
\* (timestamp) of the session DESC: each session once, in one of the orders
\* that leave the latest timestamps non-increasing
orderBySessionMaxDesc ==
    LET sessions == {rows[k].session_id : k \in 1..Len(rows)}
    IN  {o \in [1..Cardinality(sessions) -> sessions] :
            /\ \A i, j \in DOMAIN o : i # j => o[i] # o[j]
            /\ \A i, j \in DOMAIN o :
                  i < j => isoLeq(maxTimestamp(o[j]), maxTimestamp(o[i]))}

\* ORDER BY timestamp ASC
orderByTimestampAsc(chosen) ==
    {o \in [1..Cardinality(chosen) -> chosen] :
        /\ \A i, j \in DOMAIN o : i # j => o[i] # o[j]
        /\ \A i, j \in DOMAIN o :
              i < j => isoLeq(rows[o[i]].timestamp, rows[o[j]].timestamp)}

\* rows.map of getRecordsBySession: six fields are read from the row
recordOfRow(row) ==
    [id |-> row.id,
     sessionId |-> row.session_id,
     timestamp |-> parseISO(row.timestamp),
     speaker |-> row.speaker,
     content |-> row.content,
     recordType |-> row.record_type]

\* `会话 ${sessionId.substring(0, 8)}...`; the first eight characters of a
\* session id are its literal prefix and the underscore
sessionName(sessionId) ==
    <<"u4F1A", "u8BDD", " ", "s", "e", "s", "s", "i", "o", "n", "_", ".", ".", ".">>

\* rows.map of getSessionGroups
SessionGroup(sessionId) ==
    [sessionId |-> sessionId,
     sessionName |-> sessionName(sessionId),
     recordCount |-> countOfSession(sessionId),
     firstTimestamp |-> minTimestamp(sessionId),
     lastTimestamp |-> maxTimestamp(sessionId),
     speakers |-> speakersOfSession(sessionId),
     isExpanded |-> FALSE]

\* the row of the first statement of getSessionDetail, none (undefined) for
\* a session without rows
sessionInfo(sessionId) ==
    IF rowsOfSession(sessionId) = {} THEN <<>>
    ELSE <<[sessionId |-> sessionId,
            totalRecords |-> countOfSession(sessionId),
            startTime |-> minTimestamp(sessionId),
            endTime |-> maxTimestamp(sessionId),
            speakers |-> speakersOfSession(sessionId)]>>

\* formatDuration
formatDuration(ms) ==
    LET seconds == ms \div 1000
        minutes == seconds \div 60
        hours == minutes \div 60
    IN  IF hours > 0
        THEN toDecimal(hours) \o <<"u5C0F", "u65F6">>
                 \o toDecimal(minutes % 60) \o <<"u5206", "u949F">>
        ELSE IF minutes > 0
        THEN toDecimal(minutes) \o <<"u5206", "u949F">>
                 \o toDecimal(seconds % 60) \o <<"u79D2">>
        ELSE toDecimal(seconds) \o <<"u79D2">>

\* mutant: a session without rows yields an empty detail
sessionDetailOrEmpty(q, records) ==
    IF q.info = <<>>
    THEN [q EXCEPT !.state = "resolved",
                   !.result = <<[sessionId |-> q.arg,
                                 sessionName |-> sessionName(q.arg),
                                 records |-> records,
                                 totalRecords |-> 0,
                                 duration |-> formatDuration(0),
                                 speakers |-> <<>>,
                                 startTime |-> Null,
                                 endTime |-> Null]>>]
    ELSE LET info == q.info[1]
         IN  [q EXCEPT !.state = "resolved",
                       !.result =
                           <<[sessionId |-> info.sessionId,
                              sessionName |-> sessionName(q.arg),
                              records |-> records,
                              totalRecords |-> info.totalRecords,
                              duration |-> formatDuration(parseISO(info.endTime)
                                               - parseISO(info.startTime)),
                              speakers |-> info.speakers,
                              startTime |-> info.startTime,
                              endTime |-> info.endTime]>>]

\* getSessionDetail once both statements have answered: without a row of
\* the first statement sessionInfo.startTime throws a TypeError, which the
\* catch block hands to reject
sessionDetail(q, records) ==
    IF q.info = <<>>
    THEN [q EXCEPT !.state = "rejected", !.error = "TypeError"]
    ELSE LET info == q.info[1]
         IN  [q EXCEPT !.state = "resolved",
                       !.result =
                           <<[sessionId |-> info.sessionId,
                              sessionName |-> sessionName(q.arg),
                              records |-> records,
                              totalRecords |-> info.totalRecords,
                              duration |-> formatDuration(parseISO(info.endTime)
                                               - parseISO(info.startTime)),
                              speakers |-> info.speakers,
                              startTime |-> info.startTime,
                              endTime |-> info.endTime]>>]

\* the guard at the head of every query: with a handle the statement is
\* issued, without one the call waits for initializationPromise and then
\* throws
QueryCall(fn, arg) ==
    [fn |-> fn, arg |-> arg, info |-> <<>>, result |-> <<>>,
     state |-> IF db = "handle" THEN "issued"
               ELSE IF initializationPromise = "pending" THEN "awaitInit"
               ELSE "rejected",
     error |-> IF db = "handle" \/ initializationPromise = "pending" THEN None
               ELSE IF initializationPromise = "rejected"
               THEN "initialization failed"
               ELSE "Database not initialized"]

\* the error of a statement that reads dialogue_records now
SelectError ==
    IF conn = "failed" THEN "SQLITE_MISUSE"
    ELSE IF ~hasTable THEN "no such table"
    ELSE None

\* a query is called: getAllSessions(), getSessionGroups(),
\* getRecordsBySession(sessionId), getSessionDetail(sessionId)
CallQuery(fn, arg) ==
    /\ query = NoQuery
    /\ query' = QueryCall(fn, arg)
    /\ UNCHANGED <<classifierVars, criteria, found, clockVars, storeVars, calls,
                   listenerVars>>

\* the statement of getAllSessions runs and its callback resolves
GetAllSessions ==
    /\ query.fn = "getAllSessions"
    /\ query.state = "issued"
    /\ conn # "opening"
    /\ IF SelectError # None
       THEN query' = [query EXCEPT !.state = "rejected", !.error = SelectError]
       ELSE \E o \in orderBySessionMaxDesc :
               query' = [query EXCEPT !.state = "resolved",
                                      !.result = <<>> \o o]
    /\ UNCHANGED <<classifierVars, criteria, found, clockVars, storeVars, calls,
                   listenerVars>>

\* the statement of getSessionGroups runs and its callback resolves
GetSessionGroups ==
    /\ query.fn = "getSessionGroups"
    /\ query.state = "issued"
    /\ conn # "opening"
    /\ IF SelectError # None
       THEN query' = [query EXCEPT !.state = "rejected", !.error = SelectError]
       ELSE \E o \in orderBySessionMaxDesc :
               query' = [query EXCEPT
                            !.state = "resolved",
                            !.result = [k \in 1..Len(<<>> \o o) |->
                                           SessionGroup(o[k])]]
    /\ UNCHANGED <<classifierVars, criteria, found, clockVars, storeVars, calls,
                   listenerVars>>

\* the statement of getRecordsBySession runs and its callback resolves
GetRecordsBySession ==
    /\ query.fn = "getRecordsBySession"
    /\ query.state = "issued"
    /\ conn # "opening"
    /\ IF SelectError # None
       THEN query' = [query EXCEPT !.state = "rejected", !.error = SelectError]
       ELSE \E o \in orderByTimestampAsc(rowsOfSession(query.arg)) :
               query' = [query EXCEPT
                            !.state = "resolved",
                            !.result = [k \in 1..Len(<<>> \o o) |->
                                           recordOfRow(rows[o[k]])]]
    /\ UNCHANGED <<classifierVars, criteria, found, clockVars, storeVars, calls,
                   listenerVars>>

\* the first statement of getSessionDetail runs; its callback resolves the
\* inner promise and getSessionDetail goes on to call getRecordsBySession,
\* which issues its statement or, without a handle, throws
GetSessionInfo ==
    /\ query.fn = "getSessionDetail"
    /\ query.state = "issued"
    /\ conn # "opening"
    /\ query' = IF SelectError # None
                THEN [query EXCEPT !.state = "rejected", !.error = SelectError]
                ELSE IF db = "null"
                THEN [query EXCEPT
                         !.info = sessionInfo(query.arg),
                         !.state = IF initializationPromise = "pending"
                                   THEN "awaitInit" ELSE "rejected",
                         !.error = IF initializationPromise = "pending" THEN None
                                   ELSE IF initializationPromise = "rejected"
                                   THEN "initialization failed"
                                   ELSE "Database not initialized"]
                ELSE [query EXCEPT !.info = sessionInfo(query.arg),
                                   !.state = "records"]
    /\ UNCHANGED <<classifierVars, criteria, found, clockVars, storeVars, calls,
                   listenerVars>>

\* the statement of the inner getRecordsBySession runs and getSessionDetail
\* builds its result
GetSessionRecords ==
    /\ query.fn = "getSessionDetail"
    /\ query.state = "records"
    /\ IF SelectError # None
       THEN query' = [query EXCEPT !.state = "rejected", !.error = SelectError]
       ELSE \E o \in orderByTimestampAsc(rowsOfSession(query.arg)) :
               query' = sessionDetail(query,
                                      [k \in 1..Len(<<>> \o o) |->
                                          recordOfRow(rows[o[k]])])
    /\ UNCHANGED <<classifierVars, criteria, found, clockVars, storeVars, calls,
                   listenerVars>>

\* recordDialogue(speaker, content) called on the listener service, as the
\* tests do
RecordDialogue(speaker, content) ==
    /\ RecordAll(<<Delivery("recordDialogue", Item("call", content, 0),
                            <<Emission(speaker, content, "recordDialogue",
                                       Item("call", content, 0))>>)>>)
    /\ UNCHANGED <<classifierVars, searchVars, storeVars, currentSessionId,
                   isListening, registrations, terminals, closeListeners>>

\* new DialogueListenerService(databaseService): the session of the records
\* made from now on
NewDialogueListenerService ==
    /\ rand < MaxDraws
    /\ currentSessionId' = generateSessionId(now, rand + 1)
    /\ rand' = rand + 1
    /\ UNCHANGED <<classifierVars, searchVars, now, storeVars, calls, isListening,
                   registrations, terminals, closeListeners, delivered>>

\* the record of the integrity test, with the fields of a file modification
SessionRecords ==
    { [id |-> <<"test", 1, 0>>, sessionId |-> <<"session", 0, 9>>,
       timestamp |-> 0, speaker |-> "BUILDER",
       content |-> <<"u590D", "u6742", "u8BB0", "u5F55", "u6D4B", "u8BD5">>,
       recordType |-> "FILE_MODIFICATION",
       filePath |-> <<"/", "a", ".", "j", "s">>,
       modificationType |-> "MODIFY",
       oldContent |-> <<"u65E7", "u5185", "u5BB9">>,
       newContent |-> <<"u65B0", "u5185", "u5BB9">>,
       operationDetails |-> <<"u8BE6", "u7EC6">>] }

\* the sessions asked for: the session of the first listener service, of the
\* current one, of the test records; each may have no record yet
QuerySessions ==
    {generateSessionId(0, 1), currentSessionId, <<"session", 0, 9>>}

DialogueInputs ==
    { [speaker |-> "USER", content |-> <<"u4F1A", "u8BDD", "1">>] }

Init ==
    /\ line = <<>>
    /\ result = [analyzed |-> FALSE, calls |-> <<>>]
    /\ now = 0
    /\ rand = 1
    /\ db = "handle"
    /\ conn = "opening"
    /\ initializationPromise = "pending"
    /\ hasTable = FALSE
    /\ rows = <<>>
    /\ calls = <<>>
    /\ currentSessionId = generateSessionId(0, 1)
    /\ isListening = FALSE
    /\ registrations = 0
    /\ terminals = {}
    /\ closeListeners = [t \in Terminals |-> 0]
    /\ delivered = <<>>
    /\ criteria = NoCriteria
    /\ found = NotSearched
    /\ query = NoQuery

\* the events reach the classifier and the store
Next ==
    \/ OpenSucceeds
    \/ OpenFails
    \/ CreateTableDone
    \/ Close
    \/ \E i \in 1..Len(calls) : CompleteInsert(i)
    \/ \E i \in 1..Len(calls) : ResumeSaveRecord(i)
    \/ Tick
    \/ \E active \in Docs \cup {<<>>} : StartListening(active)
    \/ StopListening
    \/ \E doc \in Docs : OnDidChangeTextDocument(doc)

Spec == Init /\ [][Next]_vars

(***************************************************************************)
(* The listener specification: startListening, stopListening and every     *)
(* handler, up to the saveRecord calls they issue.                         *)
(***************************************************************************)
NextListener ==
    \/ \E active \in Docs \cup {<<>>} : StartListening(active)
    \/ StopListening
    \/ \E doc \in Docs : OnDidChangeActiveTextEditor(doc)
    \/ \E doc \in Docs : OnDidChangeTextDocument(doc)
    \/ \E terminal \in Terminals : OnDidOpenTerminal(terminal)
    \/ \E terminal \in Terminals : OnDidCloseTerminal(terminal)
    \/ \E terminal \in Terminals, isInteractedWith \in BOOLEAN :
          OnDidChangeTerminalState(terminal, isInteractedWith)
    \/ \E session \in DebugSessions : OnDidStartDebugSession(session)
    \/ \E session \in DebugSessions : OnDidTerminateDebugSession(session)
    \/ \E event \in CustomEvents : OnDidReceiveDebugSessionCustomEvent(event)
    \/ \E event \in BreakpointEvents : OnDidChangeBreakpoints(event)

SpecListener == Init /\ [][NextListener]_vars

(***************************************************************************)
(* The store specification: saveRecord called with the caller's records.   *)
(***************************************************************************)
NextStore ==
    \/ OpenSucceeds
    \/ OpenFails
    \/ CreateTableDone
    \/ Close
    \/ \E record \in TestRecords : SaveRecord(record)
    \/ \E i \in 1..Len(calls) : CompleteInsert(i)
    \/ \E i \in 1..Len(calls) : ResumeSaveRecord(i)

SpecStore == Init /\ [][NextStore]_vars

(***************************************************************************)
(* The session specification: records are saved by listener services and   *)
(* by direct calls on an initialized store while one query is made.        *)
(***************************************************************************)
InitSession ==
    /\ line = <<>>
    /\ result = [analyzed |-> FALSE, calls |-> <<>>]
    /\ now = 0
    /\ rand = 1
    /\ db = "handle"
    /\ conn = "open"
    /\ initializationPromise = "resolved"
    /\ hasTable = TRUE
    /\ rows = <<>>
    /\ calls = <<>>
    /\ currentSessionId = generateSessionId(0, 1)
    /\ isListening = FALSE
    /\ registrations = 0
    /\ terminals = {}
    /\ closeListeners = [t \in Terminals |-> 0]
    /\ delivered = <<>>
    /\ criteria = NoCriteria
    /\ found = NotSearched
    /\ query = NoQuery

NextSession ==
    \/ \E input \in DialogueInputs : RecordDialogue(input.speaker, input.content)
    \/ NewDialogueListenerService
    \/ \E record \in SessionRecords : SaveRecord(record)
    \/ \E i \in 1..Len(calls) : CompleteInsert(i)
    \/ Tick
    \/ Close
    \/ \E fn \in {"getAllSessions", "getSessionGroups"} : CallQuery(fn, <<>>)
    \/ \E fn \in {"getRecordsBySession", "getSessionDetail"},
          sessionId \in QuerySessions : CallQuery(fn, sessionId)
    \/ GetAllSessions
    \/ GetSessionGroups
    \/ GetRecordsBySession
    \/ GetSessionInfo
    \/ GetSessionRecords

SpecSession == InitSession /\ [][NextSession]_vars

(***************************************************************************)
(* The search specification: search applied once to an initialized store.  *)
(***************************************************************************)
InitSearch ==
    /\ line = <<>>
    /\ result = [analyzed |-> FALSE, calls |-> <<>>]
    /\ now = 0
    /\ rand = 1
    /\ db = "handle"
    /\ conn = "open"
    /\ initializationPromise = "resolved"
    /\ hasTable = TRUE
    /\ rows \in StoredRows
    /\ calls = <<>>
    /\ currentSessionId = generateSessionId(0, 1)
    /\ isListening = FALSE
    /\ registrations = 0
    /\ terminals = {}
    /\ closeListeners = [t \in Terminals |-> 0]
    /\ delivered = <<>>
    /\ criteria \in Criterias
    /\ found = NotSearched
    /\ query = NoQuery

\* search(criteria): searchRecords returns the chosen rows in one of the
\* orders the query allows, and search goes on from there
Search ==
    /\ found = NotSearched
    /\ query = NoQuery
    /\ \E order \in orderByTimestampDesc(
                        selectedRows(orEmpty(criteria.keyword),
                                     criteria.startTime, criteria.endTime)) :
          found' = search(criteria,
                          [k \in 1..Len(order) |-> rowToRecord(rows[order[k]])])
    /\ UNCHANGED <<classifierVars, criteria, query, clockVars, storeVars, calls,
                   listenerVars>>

NextSearch == Search

SpecSearch == InitSearch /\ [][NextSearch]_vars

(***************************************************************************)
(* The classifier specification: analyzeOutputLine applied to one line.    *)
(***************************************************************************)
InitLine ==
    /\ line \in Lines
    /\ result = [analyzed |-> FALSE, calls |-> <<>>]
    /\ now = 0
    /\ rand = 1
    /\ db = "handle"
    /\ conn = "opening"
    /\ initializationPromise = "pending"
    /\ hasTable = FALSE
    /\ rows = <<>>
    /\ calls = <<>>
    /\ currentSessionId = generateSessionId(0, 1)
    /\ isListening = FALSE
    /\ registrations = 0
    /\ terminals = {}
    /\ closeListeners = [t \in Terminals |-> 0]
    /\ delivered = <<>>
    /\ criteria = NoCriteria
    /\ found = NotSearched
    /\ query = NoQuery

AnalyzeOutputLine ==
    /\ ~result.analyzed
    /\ result' = [analyzed |-> TRUE, calls |-> analyzeOutputLine(line)]
    /\ UNCHANGED <<line, searchVars, clockVars, storeVars, calls, listenerVars>>

NextLine == AnalyzeOutputLine

SpecLine == InitLine /\ [][NextLine]_vars

(***************************************************************************)
(* Properties of the classifier, stated on the characters of the line and  *)
(* checked under SpecLine.                                                 *)
(***************************************************************************)
\* the character c without its case
Fold(c) == IF c \in DOMAIN LowerOf THEN LowerOf[c] ELSE c

\* word occurs in l, case-insensitively
ContainsIgnoringCase(l, word) ==
    \E i \in 0..(Len(l) - Len(word)) :
        \A j \in 1..Len(word) : Fold(l[i + j]) = Fold(word[j])

Contains(l, word) ==
    \E i \in 0..(Len(l) - Len(word)) : \A j \in 1..Len(word) : l[i + j] = word[j]

Begins(l, word) ==
    Len(word) <= Len(l) /\ \A j \in 1..Len(word) : l[j] = word[j]

HasNoiseKeyword(l) ==
    \E k \in 1..Len(terminalKeywords) : ContainsIgnoringCase(l, terminalKeywords[k])

Recorded == result.analyzed /\ result.calls # <<>>

\* C1: a line that contains a noise keyword, in any letter case, produces no
\* record, whatever else the line contains.
C1_NoiseLineProducesNoRecord ==
    (result.analyzed /\ HasNoiseKeyword(line)) => result.calls = <<>>

\* a noise line that carries a user tag and a valid content was analysed
C1_Witness ==
    /\ result.analyzed
    /\ HasNoiseKeyword(line)
    /\ Contains(line, userMarkers[1])
    /\ Len(line) > 20

\* C2: every record produced from a line has between 10 and 5000 characters
\* of content.
C2_ContentLengthInBounds ==
    Recorded =>
        \A k \in 1..Len(result.calls) :
            /\ Len(result.calls[k].content) >= 10
            /\ Len(result.calls[k].content) <= 5000

\* a record whose content has exactly 5000 characters was produced
C2_Witness == Recorded /\ Len(result.calls[1].content) = 5000

\* the role sets whose pattern the line matches: the bracketed tag anywhere,
\* a 'Role:' marker at the start of the line
MarkerRolesMatched(l) ==
    {r \in {"BUILDER", "CHAT", "USER"} :
        LET ms == CASE r = "BUILDER" -> builderMarkers
                    [] r = "CHAT" -> chatMarkers
                    [] r = "USER" -> userMarkers
        IN  \/ Contains(l, ms[1])
            \/ \E k \in 2..Len(ms) : Begins(l, ms[k])}

\* C3 as stated: any record produced from a line that carries a role marker
\* has the role of that marker, for every marker the line carries.
C3_RoleOfEveryMarker ==
    Recorded => \A r \in MarkerRolesMatched(line) : result.calls[1].speaker = r

FirstMatchedRole(l) ==
    IF "BUILDER" \in MarkerRolesMatched(l) THEN "BUILDER"
    ELSE IF "CHAT" \in MarkerRolesMatched(l) THEN "CHAT"
    ELSE "USER"

\* C3 (amended): any record produced from a line that matches a marker
\* pattern (a bracketed tag anywhere, a 'Role:' marker at the start of the
\* line) has the role of the first matching set in the order builder, chat,
\* user; with markers of one role set only, that is the role of the marker.
C3_RoleOfFirstMatchedMarker ==
    (Recorded /\ MarkerRolesMatched(line) # {}) =>
        result.calls[1].speaker = FirstMatchedRole(line)

\* a line with a chat marker and a user tag was recorded, as CHAT
C3_Witness ==
    /\ Recorded
    /\ MarkerRolesMatched(line) = {"CHAT", "USER"}
    /\ result.calls[1].speaker = "CHAT"

Punctuation ==
    {"-", "*", "=", "?", "!", ".", ",", ":", ";", "_", "+", "#", "~", "/",
     "|", "[", "]", "(", ")", "<", ">"}

PurelyNumeric(c) == Len(c) > 0 /\ \A i \in 1..Len(c) : c[i] \in Digits

PurelyPunctuation(c) ==
    Len(c) > 0 /\ \A i \in 1..Len(c) : c[i] \in Punctuation \cup WhiteSpace

\* the content a line has after its 'Builder:' marker
BuilderContent(l) == trim(substring(l, Len(builderMarkers[2])))

\* C4: 'Builder:' followed by a content that passes the content gate produces
\* exactly one record, BUILDER, the content as its text.
C4_BuilderPrefixRecorded ==
    (/\ result.analyzed
     /\ Begins(line, builderMarkers[2])
     /\ isRealChatContent(BuilderContent(line))
     /\ ~PurelyNumeric(BuilderContent(line))
     /\ ~PurelyPunctuation(BuilderContent(line)))
        => result.calls = <<Candidate("BUILDER", BuilderContent(line))>>

HasAny(l, words) == \E k \in 1..Len(words) : Contains(l, words[k])

\* an unmarked line, free of noise, with a dialogue word and over 20 characters
ImplicitDialogue(l) ==
    /\ ~HasNoiseKeyword(l)
    /\ MarkerRolesMatched(l) = {}
    /\ HasAny(l, dialogueIndicators)
    /\ Len(l) > 20

PrecedenceRole(l) ==
    IF HasAny(l, questionWords) THEN "USER"
    ELSE IF HasAny(l, implementationWords) THEN "BUILDER"
    ELSE IF Len(l) > 100 THEN "CHAT"
    ELSE None

\* C5: for implicit dialogue the role is USER on a question mark or question
\* word, else BUILDER on code vocabulary, else CHAT over 100 characters, else
\* there is no record; the line is recorded whole with that role (lines over
\* the 5000 characters of the content gate are not recorded at all).
C5_ImplicitRolePrecedence ==
    (result.analyzed /\ ImplicitDialogue(line)) =>
        IF PrecedenceRole(line) = None \/ Len(line) > 5000
        THEN result.calls = <<>>
        ELSE result.calls = <<Candidate(PrecedenceRole(line), line)>>

\* a line over 100 characters with a question mark was recorded as USER
C5_Witness ==
    /\ Recorded
    /\ ImplicitDialogue(line)
    /\ Len(line) > 100
    /\ Contains(line, <<"?">>)
    /\ result.calls[1].speaker = "USER"

\* C6: no record has a purely numeric content or a content of punctuation
\* and symbol characters only.
C6_NoNumericOrSymbolContent ==
    Recorded =>
        /\ ~PurelyNumeric(result.calls[1].content)
        /\ ~PurelyPunctuation(result.calls[1].content)

(***************************************************************************)
(* Properties of recordDialogue and the store, checked under Spec.         *)
(***************************************************************************)
\* the calls made for a classified line
LineCalls == {i \in 1..Len(calls) : calls[i].origin.event = "line"}

\* the calls made by the handler run that is entry d of the log
CallsOfDelivery(d) == {i \in 1..Len(calls) : calls[i].origin.delivery = d}

Saved(i) == calls[i].state = "resolved" /\ calls[i].error = None

\* C7: the same accepted line classified twice by the same listener gives two
\* recordDialogue calls whose records differ in id and agree in sessionId,
\* role and text; the second run makes as many calls as the first, none is
\* rejected as a duplicate, and once both are saved both rows are stored.
C7_SameLineTwiceTwoRecords ==
    /\ \A i, j \in LineCalls :
          (i < j /\ calls[i].origin.input = calls[j].origin.input) =>
              /\ calls[i].record.id # calls[j].record.id
              /\ calls[i].record.sessionId = calls[j].record.sessionId
              /\ calls[i].record.speaker = calls[j].record.speaker
              /\ calls[i].record.content = calls[j].record.content
              /\ calls[j].error # "UNIQUE constraint failed"
              /\ (Saved(i) /\ Saved(j)) =>
                    \E p, q \in 1..Len(rows) :
                        /\ p # q
                        /\ rows[p] = Row(calls[i].record)
                        /\ rows[q] = Row(calls[j].record)
    /\ \A d, e \in 1..Len(delivered) :
          delivered[d] = delivered[e] =>
              Cardinality(CallsOfDelivery(d)) = Cardinality(CallsOfDelivery(e))

\* the same line was classified twice and both records are stored
C7_Witness ==
    \E i, j \in LineCalls :
        /\ i < j
        /\ calls[i].origin.input = calls[j].origin.input
        /\ Saved(i) /\ Saved(j)
        /\ Len(rows) = 2

Pending(call) == call.state \in {"inserting", "awaitInit"}

\* C8: a recordDialogue call whose saveRecord fails resolves all the same,
\* makes no further call, and leaves the rows as they were; no recordDialogue
\* call is ever rejected, and a settled call stays as it is.
C8_FailedSaveIsSwallowed ==
    [][\A i \in 1..Len(calls) :
          /\ (/\ calls[i].fn = "recordDialogue"
              /\ Pending(calls[i])
              /\ ~Pending(calls'[i])
              /\ calls'[i].error # None)
                 => /\ calls'[i].state = "resolved"
                    /\ rows' = rows
                    /\ Len(calls') = Len(calls)
                    /\ \A k \in 1..Len(rows') : rows'[k].id # calls[i].record.id
          /\ calls[i].fn = "recordDialogue" => calls'[i].state # "rejected"
          /\ ~Pending(calls[i]) => calls'[i] = calls[i]]_vars

\* a recordDialogue call resolved although its saveRecord failed
C8_Witness ==
    \E i \in 1..Len(calls) :
        /\ calls[i].fn = "recordDialogue"
        /\ calls[i].state = "resolved"
        /\ calls[i].error # None

(***************************************************************************)
(* Properties of the lifecycle handlers, checked under SpecListener.       *)
(***************************************************************************)
LifecycleEvents ==
    {"openTerminal", "closeTerminal", "startDebugSession",
     "terminateDebugSession", "addBreakpoint", "removeBreakpoint"}

LifecycleRole(event) ==
    IF event \in {"addBreakpoint", "removeBreakpoint"} THEN "USER" ELSE "BUILDER"

\* the fixed text of a lifecycle event for an item
LifecycleContent(event, item) ==
    CASE event = "openTerminal" ->
            <<"u7EC8", "u7AEF", "u5DF2", "u521B", "u5EFA", ":", " ">> \o item.name
      [] event = "closeTerminal" ->
            <<"u7EC8", "u7AEF", "u5DF2", "u5173", "u95ED", ":", " ">> \o item.name
      [] event = "startDebugSession" ->
            <<"u8C03", "u8BD5", "u4F1A", "u8BDD", "u5F00", "u59CB", ":", " ">>
                \o item.name
      [] event = "terminateDebugSession" ->
            <<"u8C03", "u8BD5", "u4F1A", "u8BDD", "u7ED3", "u675F", ":", " ">>
                \o item.name
      [] event \in {"addBreakpoint", "removeBreakpoint"} ->
            (IF event = "addBreakpoint" THEN <<"u8BBE", "u7F6E">>
             ELSE <<"u79FB", "u9664">>)
            \o (IF item.kind = "source" THEN <<"u65AD", "u70B9", ":", " ">>
                ELSE <<"u51FD", "u6570", "u65AD", "u70B9", ":", " ">>)
            \o item.name
            \o (IF item.kind = "source"
                THEN <<":">> \o toDecimal(item.lineNo + 1) ELSE <<>>)

InsertRuns(i) == calls[i].state = "inserting" /\ calls'[i].state # "inserting"

\* C11: saving an edited copy of a stored record (same id and session, new
\* content) appends a second row and leaves the original row as it was.
C11_EditedCopyAppended ==
    [][\A j \in 1..Len(calls) :
          (/\ InsertRuns(j)
           /\ \E k \in 1..Len(rows) :
                 /\ rows[k].id = calls[j].record.id
                 /\ rows[k].session_id = calls[j].record.sessionId
                 /\ rows[k].content # calls[j].record.content)
              => /\ calls'[j].state = "resolved"
                 /\ calls'[j].error = None
                 /\ rows' = Append(rows, Row(calls[j].record))]_vars

\* C12: once N >= 2 saveRecord calls with pairwise distinct ids have all
\* completed on a store that opened and was never closed, all of them have
\* succeeded and the rows are exactly their N records.
C12_ConcurrentSavesAllSucceed ==
    (/\ Len(calls) >= 2
     /\ \A i, j \in 1..Len(calls) :
           i # j => calls[i].record.id # calls[j].record.id
     /\ \A i \in 1..Len(calls) : ~Pending(calls[i])
     /\ db = "handle"
     /\ conn = "open")
        => /\ \A i \in 1..Len(calls) : Saved(i)
           /\ Len(rows) = Len(calls)
           /\ \A i \in 1..Len(calls) :
                 \E k \in 1..Len(rows) : rows[k] = Row(calls[i].record)

\* C13: the statement of a store operation never runs while the one-time
\* initialization is still pending, and never fails for want of the table.
C13_OperationsWaitForInitialization ==
    [][\A i \in 1..Len(calls) :
          InsertRuns(i) => /\ initializationPromise # "pending"
                           /\ calls'[i].error # "no such table"]_vars

\* a saveRecord call made after close() that can no longer complete: it waits
\* for initializationPromise, which nothing will settle
BlockedForever(i) ==
    /\ calls[i].state = "awaitInit"
    /\ initializationPromise = "pending"
    /\ conn \notin {"opening", "creating"}

\* C14: a saveRecord call made after close() (it finds this.db null) does not
\* block for ever, and when it ends it ends with an error, stores nothing and
\* leaves the store closed.
C14_SaveAfterCloseFails ==
    /\ [](\A i \in 1..Len(calls) : ~BlockedForever(i))
    /\ [][\A i \in 1..Len(calls) :
             (calls[i].state = "awaitInit" /\ calls'[i].state # "awaitInit")
                => /\ calls'[i].state = "rejected"
                   /\ calls'[i].error # None
                   /\ rows' = rows
                   /\ db' = "null"]_vars

RECURSIVE occurrenceCountFrom(_, _, _)
occurrenceCountFrom(text, keyword, i) ==
    IF i > Len(text) - Len(keyword) THEN 0
    ELSE IF occursAt(text, keyword, i)
         THEN 1 + occurrenceCountFrom(text, keyword, i + Len(keyword))
         ELSE occurrenceCountFrom(text, keyword, i + 1)

\* the number of non-overlapping case-insensitive occurrences of keyword
occurrenceCount(text, keyword) ==
    occurrenceCountFrom(toLowerCase(text), toLowerCase(keyword), 0)

firstOccurrenceIndex(text, keyword) ==
    indexOf(toLowerCase(text), toLowerCase(keyword))

\* min(1, 0.3 + 0.2 occurrenceCount + 0.5 positionScore) as a fraction
SpecifiedScore(text, keyword) ==
    LET scaled == 3 * Len(text) + 2 * occurrenceCount(text, keyword) * Len(text)
                  + 5 * (Len(text) - firstOccurrenceIndex(text, keyword))
    IN  IF scaled > 10 * Len(text) THEN Rat(1, 1)
        ELSE Rat(scaled, 10 * Len(text))

Occurs(text, keyword) == includes(toLowerCase(text), toLowerCase(keyword))

\* C15: for a non-empty keyword that occurs in a record's text, the record
\* that survives the filters is returned with the relevance
\* min(1, 0.3 + 0.2 occurrenceCount + 0.5 positionScore), a value in [0, 1],
\* where occurrenceCount counts the non-overlapping case-insensitive
\* occurrences of the keyword as a text, whatever characters the keyword has.
C15_RelevanceOfLiteralOccurrences ==
    (found.status # "none" /\ truthy(criteria.keyword))
        => \A k \in 1..Len(found.records) :
              (/\ passesFilter(criteria, found.records[k])
               /\ Occurs(found.records[k].content, criteria.keyword))
                  => /\ found.status = "resolved"
                     /\ \E r \in 1..Len(found.results) :
                           /\ found.results[r].record = found.records[k]
                           /\ RatEq(found.results[r].relevance,
                                    SpecifiedScore(found.records[k].content,
                                                   criteria.keyword))
                           /\ ~RatLess(found.results[r].relevance, Rat(0, 1))
                           /\ ~RatLess(Rat(1, 1), found.results[r].relevance)

\* C16: when the keyword is empty or absent, the result is the records that
\* survive the filters, each with relevance exactly 0.5, in the order of the
\* store, which is timestamp descending.
C16_EmptyKeywordKeepsStoreOrder ==
    (found.status = "resolved" /\ ~truthy(criteria.keyword))
        => LET Keep(record) == passesFilter(criteria, record)
               survivors == SelectSeq(found.records, Keep)
           IN  /\ Len(found.results) = Len(survivors)
               /\ \A k \in 1..Len(survivors) :
                     /\ found.results[k].record = survivors[k]
                     /\ found.results[k].relevance = Rat(1, 2)
               /\ \A k \in 1..(Len(found.results) - 1) :
                     found.results[k].record.timestamp
                         >= found.results[k + 1].record.timestamp

C16_Witness ==
    /\ found.status = "resolved"
    /\ ~truthy(criteria.keyword)
    /\ Len(found.results) >= 2
    /\ Len(found.results) < Len(found.records)
    /\ found.results[1].record.timestamp > found.results[2].record.timestamp

\* C17: for a non-empty keyword, no entry of the returned list has
\* relevance 0.
C17_NoZeroRelevanceReturned ==
    (found.status = "resolved" /\ truthy(criteria.keyword))
        => \A r \in 1..Len(found.results) :
              ~RatEq(found.results[r].relevance, Rat(0, 1))

PositionIn(records, record) ==
    CHOOSE k \in 1..Len(records) : records[k] = record

\* C18: the returned list is ordered by relevance descending, and entries
\* of equal relevance appear in the order of the store, newest timestamp
\* first.
C18_RelevanceDescendingTiesInStoreOrder ==
    found.status = "resolved"
        => \A i, j \in 1..Len(found.results) :
              i < j
                  => /\ ~RatLess(found.results[i].relevance,
                                 found.results[j].relevance)
                     /\ RatEq(found.results[i].relevance,
                              found.results[j].relevance)
                            => /\ PositionIn(found.records,
                                             found.results[i].record)
                                  < PositionIn(found.records,
                                               found.results[j].record)
                               /\ found.results[i].record.timestamp
                                      >= found.results[j].record.timestamp

C18_Witness ==
    /\ found.status = "resolved"
    /\ \E i, j \in 1..Len(found.results) :
          /\ i < j
          /\ RatEq(found.results[i].relevance, found.results[j].relevance)
          /\ found.results[i].record.timestamp
                 > found.results[j].record.timestamp
    /\ \E i, j \in 1..Len(found.results) :
          /\ i < j
          /\ RatLess(found.results[j].relevance, found.results[i].relevance)
          /\ PositionIn(found.records, found.results[i].record)
                 > PositionIn(found.records, found.results[j].record)

\* C19: for a non-empty keyword and two returned records whose texts have
\* equal length, the one with two occurrences of the keyword, the first at
\* index i, has a strictly higher relevance than the one with one occurrence
\* at index j whenever i < j.
C19_TwoEarlyOccurrencesBeatOneLate ==
    (found.status = "resolved" /\ truthy(criteria.keyword))
        => \A a, b \in 1..Len(found.results) :
              (/\ Len(found.results[a].record.content)
                      = Len(found.results[b].record.content)
               /\ occurrenceCount(found.results[a].record.content,
                                  criteria.keyword) = 2
               /\ occurrenceCount(found.results[b].record.content,
                                  criteria.keyword) = 1
               /\ firstOccurrenceIndex(found.results[a].record.content,
                                       criteria.keyword)
                      < firstOccurrenceIndex(found.results[b].record.content,
                                             criteria.keyword))
                  => RatLess(found.results[b].relevance,
                             found.results[a].relevance)

\* C20: every returned record satisfies every criterion of the query: its
\* role is the requested role, its kind the requested kind, and when a
\* fileExtension is given it has a filePath ending with that extension.
C20_ReturnedRecordsSatisfyEveryCriterion ==
    found.status = "resolved"
        => \A r \in 1..Len(found.results) :
              /\ criteria.speaker # None
                     => found.results[r].record.speaker = criteria.speaker
              /\ criteria.recordType # None
                     => found.results[r].record.recordType = criteria.recordType
              /\ truthy(criteria.fileExtension)
                     => /\ truthy(filePath(found.results[r].record))
                        /\ endsWith(filePath(found.results[r].record),
                                    criteria.fileExtension)

\* the markers of the role set that decided the role
DecidingMarkers(l) ==
    CASE FirstMatchedRole(l) = "BUILDER" -> builderMarkers
      [] FirstMatchedRole(l) = "CHAT" -> chatMarkers
      [] FirstMatchedRole(l) = "USER" -> userMarkers

\* where the pattern of the role set matches: the leftmost position at which
\* one of its alternatives matches, the first alternative at that position
MarkerMatches(l) ==
    LET ms == DecidingMarkers(l)
    IN  {m \in [pos : 0..Len(l), k : 1..Len(ms)] :
            /\ Begins(SubSeq(l, m.pos + 1, Len(l)), ms[m.k])
            /\ m.k > 1 => m.pos = 0}

DecidingMatch(l) ==
    CHOOSE m \in MarkerMatches(l) :
        \A n \in MarkerMatches(l) :
            m.pos < n.pos \/ (m.pos = n.pos /\ m.k <= n.k)

\* the trimmed remainder of the line after the marker that decided the role
RemainderAfterDecidingMarker(l) ==
    LET m == DecidingMatch(l)
    IN  trim(SubSeq(l, m.pos + Len(DecidingMarkers(l)[m.k]) + 1, Len(l)))

\* C27: a record produced on the explicit-marker path has as its text the
\* trimmed remainder of the line after the marker that decided the role, also
\* when the line contains a second marker of the same role set.
C27_ContentFollowsDecidingMarker ==
    (Recorded /\ MarkerRolesMatched(line) # {})
        => result.calls[1].content = RemainderAfterDecidingMarker(line)

\* the stored rows that qualify: the content contains the keyword as a
\* case-insensitive substring, the timestamp lies within the bounds given
Qualifying(keyword, startTime, endTime) ==
    {k \in 1..Len(rows) :
        /\ ContainsIgnoringCase(rows[k].content, keyword)
        /\ startTime # <<>> => startTime[1] <= rows[k].timestamp[2]
        /\ endTime # <<>> => rows[k].timestamp[2] <= endTime[1]}

\* C21: searchRecords returns exactly the stored records whose content
\* contains the keyword as a case-insensitive substring (every record when
\* the keyword is empty) and whose timestamp lies within the bounds given,
\* both inclusive; none other is returned and none that qualifies is missing.
C21_SearchRecordsReturnsExactlyTheQualifying ==
    found.status # "none"
        => /\ {found.records[k].id : k \in 1..Len(found.records)}
                  = {rows[k].id :
                        k \in Qualifying(orEmpty(criteria.keyword),
                                         criteria.startTime, criteria.endTime)}
           /\ \A i, j \in 1..Len(found.records) :
                 found.records[i].id = found.records[j].id => i = j
           /\ \A i \in 1..Len(found.records) :
                 \E k \in 1..Len(rows) : found.records[i] = rowToRecord(rows[k])

\* the indices at which keyword occurs in text, case-insensitively
OccurrenceIndices(text, keyword) ==
    {i \in 0..(Len(text) - Len(keyword)) :
        \A j \in 1..Len(keyword) : Fold(text[i + j]) = Fold(keyword[j])}

\* the text from max(0, i - 20) to min(len(text), i + len(keyword) + 20)
Excerpt(text, keyword, i) ==
    LET from == IF i - 20 > 0 THEN i - 20 ELSE 0
        to == IF i + Len(keyword) + 20 < Len(text)
              THEN i + Len(keyword) + 20 ELSE Len(text)
    IN  SubSeq(text, from + 1, to)

\* C22: for a non-empty keyword the highlights of a result hold one excerpt
\* for each case-insensitive occurrence of the keyword in the text, in the
\* order of the occurrences, and the excerpt of the occurrence at index i is
\* the text from max(0, i - 20) to min(len(text), i + len(keyword) + 20).
C22_OneExcerptPerOccurrence ==
    (found.status = "resolved" /\ truthy(criteria.keyword))
        => \A r \in 1..Len(found.results) :
              LET text == found.results[r].record.content
                  at == OccurrenceIndices(text, criteria.keyword)
                  highlights == found.results[r].highlights
              IN  /\ Len(highlights) = Cardinality(at)
                  /\ \A i \in at :
                        highlights[Cardinality({k \in at : k <= i})]
                            = Excerpt(text, criteria.keyword, i)

\* a result with two excerpts, one clipped by neither end of the text and
\* one clipped by its end, that differ
C22_Witness ==
    /\ found.status = "resolved"
    /\ truthy(criteria.keyword)
    /\ \E r \in 1..Len(found.results) :
          /\ Len(found.results[r].highlights) = 2
          /\ Len(found.results[r].record.content)
                 > 2 * highlightContext + Len(criteria.keyword)
          /\ Len(found.results[r].highlights[1])
                 = 2 * highlightContext + Len(criteria.keyword)
          /\ Len(found.results[r].highlights[2])
                 < 2 * highlightContext + Len(criteria.keyword)
          /\ found.results[r].highlights[1][1]
                 # found.results[r].record.content[1]

(***************************************************************************)
(* Properties of the session queries, checked under SpecSession.           *)
(***************************************************************************)
\* the query fn gets its answer in this step
Answers(fn) ==
    /\ query.fn = fn
    /\ query.state = "issued"
    /\ query'.state = "resolved"

\* the time of the most recent stored record of a session
LatestTime(sessionId) ==
    CHOOSE t \in {rows[k].timestamp[2] : k \in rowsOfSession(sessionId)} :
        \A k \in rowsOfSession(sessionId) : rows[k].timestamp[2] <= t

\* C23: getAllSessions returns every sessionId that has a stored record
\* exactly once, ordered by the time of each session's most recent record,
\* descending; a session whose records are all newer than those of another
\* session comes before it.
C23_SessionsByLatestRecordDescending ==
    [][Answers("getAllSessions")
          => LET sessions == query'.result
             IN  /\ {sessions[k] : k \in 1..Len(sessions)}
                        = {rows[k].session_id : k \in 1..Len(rows)}
                 /\ \A i, j \in 1..Len(sessions) :
                       sessions[i] = sessions[j] => i = j
                 /\ \A i, j \in 1..Len(sessions) :
                       i < j => LatestTime(sessions[i]) >= LatestTime(sessions[j])
                 /\ \A i, j \in 1..Len(sessions) :
                       (\A a \in rowsOfSession(sessions[i]),
                           b \in rowsOfSession(sessions[j]) :
                              rows[a].timestamp[2] > rows[b].timestamp[2])
                           => i < j]_vars

\* two listener services have recorded one after the other, and the session
\* of the later one is returned first
C23_Witness ==
    /\ query.fn = "getAllSessions"
    /\ query.state = "resolved"
    /\ Len(query.result) = 2
    /\ query.result[2] = generateSessionId(0, 1)
    /\ query.result[1] = currentSessionId
    /\ \E i, j \in 1..Len(calls) :
          /\ calls[i].fn = "recordDialogue"
          /\ calls[j].fn = "recordDialogue"
          /\ calls[i].record.sessionId = query.result[2]
          /\ calls[j].record.sessionId = query.result[1]
          /\ calls[i].record.timestamp < calls[j].record.timestamp

RECURSIVE SumOfRecordCounts(_)
SumOfRecordCounts(groups) ==
    IF groups = <<>> THEN 0
    ELSE Head(groups).recordCount + SumOfRecordCounts(Tail(groups))

\* C24: for every session group returned by getSessionGroups the recordCount
\* is the number of stored records of that session, every session that has
\* a record has its group, and the recordCounts add up to the number of
\* records in the store.
C24_RecordCountsAddUp ==
    [][Answers("getSessionGroups")
          => LET groups == query'.result
             IN  /\ \A k \in 1..Len(groups) :
                       groups[k].recordCount
                           = Cardinality({i \in 1..Len(rows) :
                                 rows[i].session_id = groups[k].sessionId})
                 /\ \A i \in 1..Len(rows) :
                       \E k \in 1..Len(groups) :
                           groups[k].sessionId = rows[i].session_id
                 /\ SumOfRecordCounts(groups) = Len(rows)]_vars

\* a group was returned for a session with two records
C24_Witness ==
    /\ query.fn = "getSessionGroups"
    /\ query.state = "resolved"
    /\ \E k \in 1..Len(query.result) : query.result[k].recordCount = 2

\* C25: getSessionDetail for a sessionId that has no stored record rejects
\* with an error and returns no SessionDetail.
C25_UnknownSessionRejects ==
    (/\ query.fn = "getSessionDetail"
     /\ query.state \in {"resolved", "rejected"}
     /\ (rowsOfSession(query.arg) = {} \/ query.info = <<>>))
        => /\ query.state = "rejected"
           /\ query.error # None
           /\ query.result = <<>>

\* the detail of a session without records was asked of an open store that
\* holds records of another session, and the call was rejected
C25_Witness ==
    /\ query.fn = "getSessionDetail"
    /\ query.state = "rejected"
    /\ query.error = "TypeError"
    /\ db = "handle"
    /\ rows # <<>>
    /\ rowsOfSession(query.arg) = {}

\* C26: a record returned by getRecordsBySession has every field of the
\* record that was saved under its id, with the saved value: id, sessionId,
\* speaker, content, recordType and, where the saved record has them,
\* filePath, modificationType, oldContent, newContent and operationDetails.
C26_SavedFieldsAreReturned ==
    (query.fn = "getRecordsBySession" /\ query.state = "resolved")
        => \A k \in 1..Len(query.result) :
              \A i \in 1..Len(calls) :
                  (Saved(i) /\ calls[i].record.id = query.result[k].id)
                      => \A f \in DOMAIN calls[i].record \ {"timestamp"} :
                            /\ f \in DOMAIN query.result[k]
                            /\ query.result[k][f] = calls[i].record[f]

\* C28: the SessionDetail returned by getSessionDetail is consistent, also
\* when saveRecord calls of the session complete while it is in flight:
\* totalRecords is the length of records, startTime and endTime are the
\* timestamps of the first and the last entry of records.
C28_SessionDetailIsConsistent ==
    (query.fn = "getSessionDetail" /\ query.state = "resolved")
        => LET detail == query.result[1]
           IN  /\ detail.totalRecords = Len(detail.records)
               /\ detail.records # <<>>
               /\ detail.startTime = toISOString(detail.records[1].timestamp)
               /\ detail.endTime
                      = toISOString(detail.records[Len(detail.records)].timestamp)

(***************************************************************************)
(* Properties of startListening and stopListening, checked under           *)
(* SpecListener.                                                           *)
(***************************************************************************)
\* an event is observed in this step: handlers run, and the step is not
\* startListening
EventObserved ==
    /\ delivered' # delivered
    /\ registrations' = registrations

\* the handler runs of this step
HandlerRuns == SubSeq(delivered', Len(delivered) + 1, Len(delivered'))

\* C29: an observed event produces no record while the listener is stopped,
\* and while it is listening each item of the event is handled once, so that
\* one event does not produce several records for one item, whatever
\* startListening and stopListening calls came before.
C29_OneRecordPerEventWhileListening ==
    [][EventObserved
          => /\ ~isListening => calls' = calls
             /\ isListening
                    => \A i, j \in 1..Len(HandlerRuns) :
                          HandlerRuns[i] = HandlerRuns[j] => i = j]_vars

\* a change event of an output document is observed in this step
ChangeObserved ==
    /\ EventObserved
    /\ HandlerRuns[1].event = "changeTextDocument"

\* the recordDialogue calls made in this step
NewCalls == SubSeq(calls', Len(calls) + 1, Len(calls'))

\* the lines of the whole document, trimmed
DocumentLines(text) ==
    [k \in 1..Len(split(text, "\n")) |-> trim(split(text, "\n")[k])]

\* C30: at every change event of an output document every non-empty line of
\* the whole document is classified again, and a line the classifier accepts
\* yields one additional record for the event (one for each place the line
\* has in the document), so k change events produce k records for the line.
C30_EachChangeEventRecordsEachAcceptedLineOnce ==
    [][ChangeObserved
          => LET lines == DocumentLines(HandlerRuns[1].input.name)
             IN  \A n \in 1..Len(lines) :
                    (lines[n] # <<>> /\ analyzeOutputLine(lines[n]) # <<>>)
                        => Cardinality({k \in 1..Len(NewCalls) :
                               NewCalls[k].origin.input
                                   = Item("line", lines[n], 0)})
                               = Cardinality({m \in 1..Len(lines) :
                                     lines[m] = lines[n]})]_vars
=============================================================================
